---- MODULE Spec2Model ----
(***************************************************************************)
(* The AI-assistance engine of the task management backend                 *)
(* (backend/app/services/ai_service.py) and the routes that call it.       *)
(*                                                                         *)
(* A Python str is a sequence of one-character strings, so that slicing,   *)
(* lower() and the substring test `kw in text` are computed as Python      *)
(* computes them.  A character outside ASCII is written by its code point: *)
(* "U7D27" is U+7D27.                                                      *)
(***************************************************************************)
EXTENDS Integers, Sequences, FiniteSets, TLC

VARIABLES
  api_key,       \* settings.openai_api_key, fixed when the service is built
  client,        \* AIService.client: "AsyncOpenAI" or "None"
  remote_calls,  \* number of requests sent to the remote model so far
  last,          \* the last call: operation, arguments, remote answer, result
  tasks,         \* the rows of table "tasks", in insertion order
  next_id,       \* the next autoincrement id
  response,      \* the HTTP response of the last route call
  sessions       \* the requests suspended between loading a row and commit

vars == <<api_key, client, remote_calls, last, tasks, next_id, response, sessions>>

----------------------------------------------------------------------------
(* Bounds of the model *)

\* most phrases joined into one input text
MaxWords == 2
\* most remote requests in one behaviour
MaxRemoteCalls == 2

----------------------------------------------------------------------------
(* Python values *)

\* Python None where a str is optional: a one-element sequence whose element
\* is no character.
None == <<"None">>

Min(a, b) == IF a < b THEN a ELSE b

UpperCase == <<"A","B","C","D","E","F","G","H","I","J","K","L","M",
               "N","O","P","Q","R","S","T","U","V","W","X","Y","Z">>
LowerCase == <<"a","b","c","d","e","f","g","h","i","j","k","l","m",
               "n","o","p","q","r","s","t","u","v","w","x","y","z">>

\* str.lower() on one character
lower_char(c) ==
  IF \E i \in 1..Len(UpperCase) : UpperCase[i] = c
  THEN LowerCase[CHOOSE i \in 1..Len(UpperCase) : UpperCase[i] = c]
  ELSE c

\* str.lower()
lower(text) == [i \in 1..Len(text) |-> lower_char(text[i])]

\* text[:n]
slice(text, n) == SubSeq(text, 1, Min(n, Len(text)))

\* kw in text
str_in(kw, text) ==
  \E i \in 0..(Len(text) - Len(kw)) : SubSeq(text, i + 1, i + Len(kw)) = kw

\* any(word in text for word in words)
any_in(words, text) == \E k \in 1..Len(words) : str_in(words[k], text)

\* title + " " + (description or "")
title_and_description(title, description) ==
  title \o <<" ">> \o (IF description = None THEN <<>> ELSE description)


\* A value json.loads can produce (and so any value a remote payload puts in
\* a result).  t is its type; s a str, n a number in tenths (0.8 is 8, 2 is
\* 20), l a list of str, o a list of objects.  An object is a function from
\* its keys to such values.
JStr(s) == [t |-> "str", s |-> s, n |-> 0, l |-> <<>>, o |-> <<>>]
JNum(n) == [t |-> "num", s |-> <<>>, n |-> n, l |-> <<>>, o |-> <<>>]
JNull == [t |-> "null", s |-> <<>>, n |-> 0, l |-> <<>>, o |-> <<>>]
JList(l) == [t |-> "list", s |-> <<>>, n |-> 0, l |-> l, o |-> <<>>]
JObjs(o) == [t |-> "objs", s |-> <<>>, n |-> 0, l |-> <<>>, o |-> o]
EmptyObject == <<>>

\* data.get(key, default)
get(data, key, default) == IF key \in DOMAIN data THEN data[key] ELSE default

\* len(v) of a str or a list
py_len(v) ==
  CASE v.t = "str" -> Len(v.s)
    [] v.t = "list" -> Len(v.l)
    [] v.t = "objs" -> Len(v.o)
    [] OTHER -> 0

\* v[:n] of a str or a list
py_slice(v, n) ==
  CASE v.t = "str" -> JStr(slice(v.s, n))
    [] v.t = "list" -> JList(slice(v.l, n))
    [] v.t = "objs" -> JObjs(slice(v.o, n))
    [] OTHER -> v

----------------------------------------------------------------------------
(* Enumerations: a member is named by its Python name, .value is its string *)

TaskPriority_LOW == "LOW"
TaskPriority_MEDIUM == "MEDIUM"
TaskPriority_HIGH == "HIGH"
TaskPriorityMembers == {TaskPriority_LOW, TaskPriority_MEDIUM, TaskPriority_HIGH}

\* member.value
priority_value(m) ==
  CASE m = TaskPriority_LOW -> <<"l","o","w">>
    [] m = TaskPriority_MEDIUM -> <<"m","e","d","i","u","m">>
    [] m = TaskPriority_HIGH -> <<"h","i","g","h">>

\* TaskPriority(value) succeeds exactly on the value of a member
is_priority_value(s) == \E m \in TaskPriorityMembers : priority_value(m) = s
TaskPriority(s) == CHOOSE m \in TaskPriorityMembers : priority_value(m) = s

TaskStatus_PENDING == "PENDING"
TaskStatus_IN_PROGRESS == "IN_PROGRESS"
TaskStatus_COMPLETED == "COMPLETED"
TaskStatusMembers == {TaskStatus_PENDING, TaskStatus_IN_PROGRESS, TaskStatus_COMPLETED}

----------------------------------------------------------------------------
(* Keyword tables of the local heuristics, in declaration order *)

\* _fallback_parse, tag_keywords lines 93-98
tag_keywords == <<
  [name |-> <<"w","o","r","k">>,  \* work
   keywords |-> <<
      <<"w","o","r","k">>,  \* work
      <<"m","e","e","t","i","n","g">>,  \* meeting
      <<"p","r","o","j","e","c","t">>,  \* project
      <<"r","e","p","o","r","t">>,  \* report
      <<"U5DE5","U4F5C">>,  \* <U+5DE5><U+4F5C>
      <<"U4F1A","U8BAE">>  \* <U+4F1A><U+8BAE>
   >>],
  [name |-> <<"p","e","r","s","o","n","a","l">>,  \* personal
   keywords |-> <<
      <<"p","e","r","s","o","n","a","l">>,  \* personal
      <<"h","o","m","e">>,  \* home
      <<"f","a","m","i","l","y">>,  \* family
      <<"U4E2A","U4EBA">>,  \* <U+4E2A><U+4EBA>
      <<"U5BB6">>  \* <U+5BB6>
   >>],
  [name |-> <<"s","h","o","p","p","i","n","g">>,  \* shopping
   keywords |-> <<
      <<"b","u","y">>,  \* buy
      <<"s","h","o","p">>,  \* shop
      <<"p","u","r","c","h","a","s","e">>,  \* purchase
      <<"g","r","o","c","e","r","i","e","s">>,  \* groceries
      <<"U8D2D","U4E70">>,  \* <U+8D2D><U+4E70>
      <<"U8D2D","U7269">>  \* <U+8D2D><U+7269>
   >>],
  [name |-> <<"h","e","a","l","t","h">>,  \* health
   keywords |-> <<
      <<"d","o","c","t","o","r">>,  \* doctor
      <<"g","y","m">>,  \* gym
      <<"e","x","e","r","c","i","s","e">>,  \* exercise
      <<"h","e","a","l","t","h">>,  \* health
      <<"U5065","U5EB7">>,  \* <U+5065><U+5EB7>
      <<"U8FD0","U52A8">>  \* <U+8FD0><U+52A8>
   >>]
>>

\* _fallback_parse, keyword list of line 86
parse_high_words == <<
  <<"u","r","g","e","n","t">>,  \* urgent
  <<"a","s","a","p">>,  \* asap
  <<"i","m","p","o","r","t","a","n","t">>,  \* important
  <<"c","r","i","t","i","c","a","l">>,  \* critical
  <<"U7D27","U6025">>,  \* <U+7D27><U+6025>
  <<"U91CD","U8981">>  \* <U+91CD><U+8981>
>>

\* _fallback_parse, keyword list of line 88
parse_low_words == <<
  <<"s","o","m","e","d","a","y">>,  \* someday
  <<"m","a","y","b","e">>,  \* maybe
  <<"w","h","e","n"," ","p","o","s","s","i","b","l","e">>,  \* when possible
  <<"U4F4E","U4F18","U5148">>,  \* <U+4F4E><U+4F18><U+5148>
  <<"U7A7A","U95F2">>  \* <U+7A7A><U+95F2>
>>

\* _fallback_suggest_tags, categories lines 152-159
categories == <<
  [name |-> <<"d","e","v","e","l","o","p","m","e","n","t">>,  \* development
   keywords |-> <<
      <<"c","o","d","e">>,  \* code
      <<"b","u","g">>,  \* bug
      <<"f","e","a","t","u","r","e">>,  \* feature
      <<"a","p","i">>,  \* api
      <<"d","a","t","a","b","a","s","e">>,  \* database
      <<"U5F00","U53D1">>,  \* <U+5F00><U+53D1>
      <<"U4EE3","U7801">>  \* <U+4EE3><U+7801>
   >>],
  [name |-> <<"m","e","e","t","i","n","g">>,  \* meeting
   keywords |-> <<
      <<"m","e","e","t","i","n","g">>,  \* meeting
      <<"c","a","l","l">>,  \* call
      <<"d","i","s","c","u","s","s","i","o","n">>,  \* discussion
      <<"s","y","n","c">>,  \* sync
      <<"U4F1A","U8BAE">>  \* <U+4F1A><U+8BAE>
   >>],
  [name |-> <<"d","o","c","u","m","e","n","t","a","t","i","o","n">>,  \* documentation
   keywords |-> <<
      <<"d","o","c">>,  \* doc
      <<"w","r","i","t","e">>,  \* write
      <<"d","o","c","u","m","e","n","t">>,  \* document
      <<"r","e","a","d","m","e">>,  \* readme
      <<"U6587","U6863">>  \* <U+6587><U+6863>
   >>],
  [name |-> <<"d","e","s","i","g","n">>,  \* design
   keywords |-> <<
      <<"d","e","s","i","g","n">>,  \* design
      <<"u","i">>,  \* ui
      <<"u","x">>,  \* ux
      <<"m","o","c","k","u","p">>,  \* mockup
      <<"U8BBE","U8BA1">>  \* <U+8BBE><U+8BA1>
   >>],
  [name |-> <<"t","e","s","t","i","n","g">>,  \* testing
   keywords |-> <<
      <<"t","e","s","t">>,  \* test
      <<"q","a">>,  \* qa
      <<"q","u","a","l","i","t","y">>,  \* quality
      <<"U6D4B","U8BD5">>  \* <U+6D4B><U+8BD5>
   >>],
  [name |-> <<"r","e","s","e","a","r","c","h">>,  \* research
   keywords |-> <<
      <<"r","e","s","e","a","r","c","h">>,  \* research
      <<"i","n","v","e","s","t","i","g","a","t","e">>,  \* investigate
      <<"e","x","p","l","o","r","e">>,  \* explore
      <<"U7814","U7A76">>  \* <U+7814><U+7A76>
   >>]
>>

\* _fallback_suggest_priority, keyword list of line 208
priority_high_words == <<
  <<"u","r","g","e","n","t">>,  \* urgent
  <<"a","s","a","p">>,  \* asap
  <<"c","r","i","t","i","c","a","l">>,  \* critical
  <<"b","l","o","c","k","e","r">>,  \* blocker
  <<"U7D27","U6025">>,  \* <U+7D27><U+6025>
  <<"U7ACB","U5373">>  \* <U+7ACB><U+5373>
>>

\* _fallback_suggest_priority, keyword list of line 210
priority_low_words == <<
  <<"s","o","m","e","d","a","y">>,  \* someday
  <<"m","a","y","b","e">>,  \* maybe
  <<"n","i","c","e"," ","t","o"," ","h","a","v","e">>,  \* nice to have
  <<"U4F4E","U4F18","U5148">>  \* <U+4F4E><U+4F18><U+5148>
>>

\* _fallback_categorize, category_keywords lines 449-460
category_keywords == <<
  [name |-> <<"w","o","r","k">>,  \* work
   keywords |-> <<
      <<"w","o","r","k">>,  \* work
      <<"m","e","e","t","i","n","g">>,  \* meeting
      <<"p","r","o","j","e","c","t">>,  \* project
      <<"r","e","p","o","r","t">>,  \* report
      <<"c","l","i","e","n","t">>,  \* client
      <<"d","e","a","d","l","i","n","e">>,  \* deadline
      <<"U5DE5","U4F5C">>,  \* <U+5DE5><U+4F5C>
      <<"U4F1A","U8BAE">>,  \* <U+4F1A><U+8BAE>
      <<"U9879","U76EE">>,  \* <U+9879><U+76EE>
      <<"U62A5","U544A">>,  \* <U+62A5><U+544A>
      <<"U5BA2","U6237">>,  \* <U+5BA2><U+6237>
      <<"U622A","U6B62">>,  \* <U+622A><U+6B62>
      <<"U529E","U516C">>,  \* <U+529E><U+516C>
      <<"U6C47","U62A5">>,  \* <U+6C47><U+62A5>
      <<"U540C","U4E8B">>,  \* <U+540C><U+4E8B>
      <<"U8001","U677F">>,  \* <U+8001><U+677F>
      <<"U516C","U53F8">>  \* <U+516C><U+53F8>
   >>],
  [name |-> <<"p","e","r","s","o","n","a","l">>,  \* personal
   keywords |-> <<
      <<"p","e","r","s","o","n","a","l">>,  \* personal
      <<"s","e","l","f">>,  \* self
      <<"U4E2A","U4EBA">>,  \* <U+4E2A><U+4EBA>
      <<"U81EA","U5DF1">>,  \* <U+81EA><U+5DF1>
      <<"U79C1","U4EBA">>  \* <U+79C1><U+4EBA>
   >>],
  [name |-> <<"h","e","a","l","t","h">>,  \* health
   keywords |-> <<
      <<"h","e","a","l","t","h">>,  \* health
      <<"g","y","m">>,  \* gym
      <<"e","x","e","r","c","i","s","e">>,  \* exercise
      <<"d","o","c","t","o","r">>,  \* doctor
      <<"h","o","s","p","i","t","a","l">>,  \* hospital
      <<"m","e","d","i","c","i","n","e">>,  \* medicine
      <<"U5065","U5EB7">>,  \* <U+5065><U+5EB7>
      <<"U8FD0","U52A8">>,  \* <U+8FD0><U+52A8>
      <<"U533B","U751F">>,  \* <U+533B><U+751F>
      <<"U953B","U70BC">>,  \* <U+953B><U+70BC>
      <<"U533B","U9662">>,  \* <U+533B><U+9662>
      <<"U68C0","U67E5">>,  \* <U+68C0><U+67E5>
      <<"U4F53","U68C0">>,  \* <U+4F53><U+68C0>
      <<"U836F">>,  \* <U+836F>
      <<"U6CBB","U7597">>,  \* <U+6CBB><U+7597>
      <<"U770B","U75C5">>,  \* <U+770B><U+75C5>
      <<"U8EAB","U4F53">>  \* <U+8EAB><U+4F53>
   >>],
  [name |-> <<"f","i","n","a","n","c","e">>,  \* finance
   keywords |-> <<
      <<"m","o","n","e","y">>,  \* money
      <<"p","a","y">>,  \* pay
      <<"b","i","l","l">>,  \* bill
      <<"b","u","d","g","e","t">>,  \* budget
      <<"i","n","v","e","s","t">>,  \* invest
      <<"b","a","n","k">>,  \* bank
      <<"U94B1">>,  \* <U+94B1>
      <<"U652F","U4ED8">>,  \* <U+652F><U+4ED8>
      <<"U8D26","U5355">>,  \* <U+8D26><U+5355>
      <<"U6295","U8D44">>,  \* <U+6295><U+8D44>
      <<"U94F6","U884C">>,  \* <U+94F6><U+884C>
      <<"U8D22","U52A1">>,  \* <U+8D22><U+52A1>
      <<"U5DE5","U8D44">>,  \* <U+5DE5><U+8D44>
      <<"U8F6C","U8D26">>,  \* <U+8F6C><U+8D26>
      <<"U7406","U8D22">>  \* <U+7406><U+8D22>
   >>],
  [name |-> <<"l","e","a","r","n","i","n","g">>,  \* learning
   keywords |-> <<
      <<"l","e","a","r","n">>,  \* learn
      <<"s","t","u","d","y">>,  \* study
      <<"c","o","u","r","s","e">>,  \* course
      <<"b","o","o","k">>,  \* book
      <<"r","e","a","d">>,  \* read
      <<"t","u","t","o","r","i","a","l">>,  \* tutorial
      <<"U5B66","U4E60">>,  \* <U+5B66><U+4E60>
      <<"U8BFE","U7A0B">>,  \* <U+8BFE><U+7A0B>
      <<"U9605","U8BFB">>,  \* <U+9605><U+8BFB>
      <<"U6559","U7A0B">>,  \* <U+6559><U+7A0B>
      <<"U57F9","U8BAD">>,  \* <U+57F9><U+8BAD>
      <<"U77E5","U8BC6">>,  \* <U+77E5><U+8BC6>
      <<"U6280","U80FD">>  \* <U+6280><U+80FD>
   >>],
  [name |-> <<"s","o","c","i","a","l">>,  \* social
   keywords |-> <<
      <<"f","r","i","e","n","d">>,  \* friend
      <<"p","a","r","t","y">>,  \* party
      <<"d","i","n","n","e","r">>,  \* dinner
      <<"m","e","e","t">>,  \* meet
      <<"U670B","U53CB">>,  \* <U+670B><U+53CB>
      <<"U805A","U4F1A">>,  \* <U+805A><U+4F1A>
      <<"U7EA6","U4F1A">>,  \* <U+7EA6><U+4F1A>
      <<"U805A","U9910">>,  \* <U+805A><U+9910>
      <<"U793E","U4EA4">>,  \* <U+793E><U+4EA4>
      <<"U89C1","U9762">>  \* <U+89C1><U+9762>
   >>],
  [name |-> <<"h","o","m","e">>,  \* home
   keywords |-> <<
      <<"h","o","m","e">>,  \* home
      <<"c","l","e","a","n">>,  \* clean
      <<"r","e","p","a","i","r">>,  \* repair
      <<"h","o","u","s","e">>,  \* house
      <<"U5BB6">>,  \* <U+5BB6>
      <<"U6253","U626B">>,  \* <U+6253><U+626B>
      <<"U4FEE","U7406">>,  \* <U+4FEE><U+7406>
      <<"U6574","U7406">>,  \* <U+6574><U+7406>
      <<"U5BB6","U52A1">>,  \* <U+5BB6><U+52A1>
      <<"U623F","U95F4">>,  \* <U+623F><U+95F4>
      <<"U88C5","U4FEE">>  \* <U+88C5><U+4FEE>
   >>],
  [name |-> <<"c","r","e","a","t","i","v","e">>,  \* creative
   keywords |-> <<
      <<"d","e","s","i","g","n">>,  \* design
      <<"c","r","e","a","t","e">>,  \* create
      <<"a","r","t">>,  \* art
      <<"w","r","i","t","e">>,  \* write
      <<"U8BBE","U8BA1">>,  \* <U+8BBE><U+8BA1>
      <<"U521B","U4F5C">>,  \* <U+521B><U+4F5C>
      <<"U827A","U672F">>,  \* <U+827A><U+672F>
      <<"U5199","U4F5C">>,  \* <U+5199><U+4F5C>
      <<"U753B">>  \* <U+753B>
   >>],
  [name |-> <<"u","r","g","e","n","t">>,  \* urgent
   keywords |-> <<
      <<"u","r","g","e","n","t">>,  \* urgent
      <<"a","s","a","p">>,  \* asap
      <<"e","m","e","r","g","e","n","c","y">>,  \* emergency
      <<"i","m","p","o","r","t","a","n","t">>,  \* important
      <<"c","r","i","t","i","c","a","l">>,  \* critical
      <<"U7D27","U6025">>,  \* <U+7D27><U+6025>
      <<"U7ACB","U5373">>,  \* <U+7ACB><U+5373>
      <<"U9A6C","U4E0A">>,  \* <U+9A6C><U+4E0A>
      <<"U91CD","U8981">>,  \* <U+91CD><U+8981>
      <<"U5C3D","U5FEB">>  \* <U+5C3D><U+5FEB>
   >>],
  [name |-> <<"s","h","o","p","p","i","n","g">>,  \* shopping
   keywords |-> <<
      <<"b","u","y">>,  \* buy
      <<"s","h","o","p">>,  \* shop
      <<"p","u","r","c","h","a","s","e">>,  \* purchase
      <<"o","r","d","e","r">>,  \* order
      <<"U8D2D","U4E70">>,  \* <U+8D2D><U+4E70>
      <<"U8D2D","U7269">>,  \* <U+8D2D><U+7269>
      <<"U4E70">>,  \* <U+4E70>
      <<"U4E0B","U5355">>,  \* <U+4E0B><U+5355>
      <<"U5546","U57CE">>  \* <U+5546><U+57CE>
   >>]
>>


----------------------------------------------------------------------------
(* The local fallbacks *)

\* the names of the groups of `table` with a keyword in `text`, in table order
matching_groups(table, text) ==
  LET hit(g) == any_in(g.keywords, text)
      sel == SelectSeq(table, hit)
  IN [i \in 1..Len(sel) |-> sel[i].name]

\* longest title taken from a free text
TitleCap == 100
\* confidence of a fallback draft, in tenths
FallbackConfidence == 5
\* confidence of a remote draft that gives none, in tenths
DefaultConfidence == 8
\* most tags suggest_tags returns
TagCap == 5

_fallback_parse(text) ==
  LET text_lower == lower(text)
      title == IF Len(text) > TitleCap THEN slice(text, TitleCap) ELSE text
      priority == IF any_in(parse_high_words, text_lower) THEN TaskPriority_HIGH
                  ELSE IF any_in(parse_low_words, text_lower) THEN TaskPriority_LOW
                  ELSE TaskPriority_MEDIUM
  IN [title |-> title,
      description |-> None,
      priority |-> priority,
      tags |-> matching_groups(tag_keywords, text_lower),
      due_date |-> None,
      confidence |-> FallbackConfidence]

\* a tag suggester that returns every matching group
_fallback_suggest_tags_uncapped(title, description) ==
  LET text == lower(title_and_description(title, description))
      tags == matching_groups(categories, text)
  IN [tags |-> JList(tags),
      reasoning |-> JStr(<<"B","a","s","e","d"," ","o","n"," ","k","e","y","w","o","r","d"," ","m","a","t","c","h","i","n","g">>)]

_fallback_suggest_tags(title, description) ==
  LET text == lower(title_and_description(title, description))
      tags == matching_groups(categories, text)
  IN [tags |-> JList(slice(tags, TagCap)),
      reasoning |-> JStr(<<"B","a","s","e","d"," ","o","n"," ","k","e","y","w","o","r","d"," ","m","a","t","c","h","i","n","g">>)]

_fallback_suggest_priority(title, description) ==
  LET text == lower(title_and_description(title, description))
  IN IF any_in(priority_high_words, text)
     THEN [priority |-> TaskPriority_HIGH,
           reasoning |-> JStr(<<"C","o","n","t","a","i","n","s"," ","u","r","g","e","n","c","y"," ","k","e","y","w","o","r","d","s">>)]
     ELSE IF any_in(priority_low_words, text)
     THEN [priority |-> TaskPriority_LOW,
           reasoning |-> JStr(<<"C","o","n","t","a","i","n","s"," ","l","o","w","-","p","r","i","o","r","i","t","y"," ","k","e","y","w","o","r","d","s">>)]
     ELSE [priority |-> TaskPriority_MEDIUM,
           reasoning |-> JStr(<<"D","e","f","a","u","l","t"," ","p","r","i","o","r","i","t","y">>)]

\* a categorizer that keeps one subcategory
_fallback_categorize_one_subcategory(title, description) ==
  LET text == lower(title_and_description(title, description))
      matched_categories == matching_groups(category_keywords, text)
  IN IF matched_categories # <<>>
     THEN [category |-> JStr(matched_categories[1]),
           subcategories |-> JList(SubSeq(matched_categories, 2,
                                          Min(2, Len(matched_categories)))),
           reasoning |-> JStr(<<"U57FA","U4E8E","U5173","U952E","U8BCD","U5339","U914D",":"," ">> \o matched_categories[1])]
     ELSE [category |-> JStr(<<"o","t","h","e","r">>),
           subcategories |-> JList(<<>>),
           reasoning |-> JStr(<<"U672A","U80FD","U5339","U914D","U5230","U5177","U4F53","U5206","U7C7B">>)]

_fallback_categorize(title, description) ==
  LET text == lower(title_and_description(title, description))
      matched_categories == matching_groups(category_keywords, text)
  IN IF matched_categories # <<>>
     THEN [category |-> JStr(matched_categories[1]),
           subcategories |-> JList(SubSeq(matched_categories, 2,
                                          Min(3, Len(matched_categories)))),
           reasoning |-> JStr(<<"U57FA","U4E8E","U5173","U952E","U8BCD","U5339","U914D",":"," ">> \o matched_categories[1])]
     ELSE [category |-> JStr(<<"o","t","h","e","r">>),
           subcategories |-> JList(<<>>),
           reasoning |-> JStr(<<"U672A","U80FD","U5339","U914D","U5230","U5177","U4F53","U5206","U7C7B">>)]

_fallback_breakdown(title) ==
  [subtasks |-> <<
     [title |-> <<"P","l","a","n",":"," ">> \o title,
      description |-> <<"D","e","f","i","n","e"," ","s","c","o","p","e"," ","a","n","d"," ","r","e","q","u","i","r","e","m","e","n","t","s">>,
      estimated_effort |-> <<"3","0"," ","m","i","n">>, order |-> 1],
     [title |-> <<"E","x","e","c","u","t","e",":"," ">> \o title,
      description |-> <<"C","o","m","p","l","e","t","e"," ","t","h","e"," ","m","a","i","n"," ","w","o","r","k">>,
      estimated_effort |-> <<"2"," ","h","o","u","r","s">>, order |-> 2],
     [title |-> <<"R","e","v","i","e","w",":"," ">> \o title,
      description |-> <<"R","e","v","i","e","w"," ","a","n","d"," ","v","e","r","i","f","y"," ","c","o","m","p","l","e","t","i","o","n">>,
      estimated_effort |-> <<"3","0"," ","m","i","n">>, order |-> 3] >>,
   reasoning |-> JStr(<<"G","e","n","e","r","i","c"," ","b","r","e","a","k","d","o","w","n"," ","w","i","t","h","o","u","t"," ","A","I">>)]

\* str(n) of a natural number
RECURSIVE int_str(_)
int_str(n) ==
  LET digit == <<"0","1","2","3","4","5","6","7","8","9">>[(n % 10) + 1]
  IN IF n < 10 THEN <<digit>> ELSE int_str(n \div 10) \o <<digit>>

\* sum(1 for t in tasks if t.get(field) == value)
count_where(task_dicts, field, value) ==
  Cardinality({i \in 1..Len(task_dicts) : task_dicts[i][field] = value})

_fallback_summarize(task_dicts) ==
  IF task_dicts = <<>>
  THEN <<"U6682","U65E0","U4EFB","U52A1","U9700","U8981","U603B","U7ED3","U3002">>
  ELSE <<"U60A8","U5171","U6709"," ">> \o int_str(Len(task_dicts)) \o <<" ","U4E2A","U4EFB","U52A1","UFF1A">>
       \o int_str(count_where(task_dicts, "status", <<"c","o","m","p","l","e","t","e","d">>)) \o <<" ","U4E2A","U5DF2","U5B8C","U6210","UFF0C">>
       \o int_str(count_where(task_dicts, "status", <<"i","n","_","p","r","o","g","r","e","s","s">>)) \o <<" ","U4E2A","U8FDB","U884C","U4E2D","UFF0C">>
       \o int_str(count_where(task_dicts, "status", <<"p","e","n","d","i","n","g">>)) \o <<" ","U4E2A","U5F85","U5904","U7406","U3002","U5176","U4E2D"," ">>
       \o int_str(count_where(task_dicts, "priority", <<"h","i","g","h">>)) \o <<" ","U4E2A","U662F","U9AD8","U4F18","U5148","U7EA7","U4EFB","U52A1","U3002">>

----------------------------------------------------------------------------
(* The remote model *)

\* AIService._is_available
\* a service that takes the remote model to be there always
_always_available == TRUE

_is_available == client # "None" /\ api_key # <<>>

\* What one request to the remote model does: it raises, or it answers with
\* a completion.  The completion of a chat request is a text, held as its
\* segments in order: "prose" holds no brace, "braces" is a brace-delimited
\* text that is no JSON, "obj" is the text of the JSON object `data`.  The
\* completion of summarize is read as plain text, `text`; the answer to an
\* embeddings request is a vector, `embedding`.
Raises == [kind |-> "raise", content |-> <<>>, text |-> <<>>, embedding |-> <<>>]
Answer(content) == [kind |-> "chat", content |-> content, text |-> <<>>, embedding |-> <<>>]
TextAnswer(text) == [kind |-> "text", content |-> <<>>, text |-> text, embedding |-> <<>>]
EmbeddingAnswer(v) == [kind |-> "embedding", content |-> <<>>, text |-> <<>>, embedding |-> v]
\* no request was sent
NoRequest == [kind |-> "none", content |-> <<>>, text |-> <<>>, embedding |-> <<>>]

Prose == [kind |-> "prose", data |-> EmptyObject]
Braces == [kind |-> "braces", data |-> EmptyObject]
Obj(data) == [kind |-> "obj", data |-> data]

\* The exception classes the remote path can raise; all derive from Exception.
ExceptionClasses ==
  {"APIError", "JSONDecodeError", "ValueError", "ValidationError",
   "TypeError", "AttributeError"}

\* `except Exception as e`: does the clause catch an exception of class exc
\* a handler for the errors of decoding and validation only
except_ValueError(exc) == exc \in {"JSONDecodeError", "ValueError", "ValidationError"}

except_Exception(exc) == exc \in ExceptionClasses

\* outcomes of a try block
Return(value) == [status |-> "return", exc |-> "", value |-> value]
Raise(exc) == [status |-> "raise", exc |-> exc, value |-> <<>>]
FallThrough == [status |-> "fallthrough", exc |-> "", value |-> <<>>]

\* what the caller of an operation gets
Result(value) == [raised |-> FALSE, exc |-> "", value |-> value]
Propagated(exc) == [raised |-> TRUE, exc |-> exc, value |-> <<>>]

\* an operation: its try block, then the fallback after a caught exception
\* or after falling out of the `if json_match`
try_else_fallback(try, fallback) ==
  CASE try.status = "return" -> Result(try.value)
    [] try.status = "raise" /\ ~except_Exception(try.exc) -> Propagated(try.exc)
    [] OTHER -> Result(fallback)

\* re.search(r'\{.*\}', result, re.DOTALL): greedy, from the first "{" of the
\* text to its last "}".  The indices of the segments the match spans.
re_search(content) ==
  LET braced == {i \in 1..Len(content) : content[i].kind \in {"braces", "obj"}}
  IN IF braced = {} THEN {}
     ELSE LET first == CHOOSE i \in braced : \A j \in braced : i <= j
              final == CHOOSE i \in braced : \A j \in braced : j <= i
          IN first..final

\* json.loads(json_match.group()): the match is JSON exactly when it is the
\* text of one object
json_loads_ok(content, match) ==
  \E i \in match : match = {i} /\ content[i].kind = "obj"
json_loads(content, match) == content[CHOOSE i \in match : TRUE].data

\* response = await create(...); result = content.strip(); json_match = ...;
\* if json_match: data = json.loads(...); <body(data)>
with_remote_json(resp, body(_)) ==
  IF resp.kind = "raise" THEN Raise("APIError")
  ELSE LET json_match == re_search(resp.content)
       IN IF json_match = {} THEN FallThrough
          ELSE IF ~json_loads_ok(resp.content, json_match) THEN Raise("JSONDecodeError")
          ELSE body(json_loads(resp.content, json_match))

----------------------------------------------------------------------------
(* The assistance operations of AIService.  `resp` is what the remote model *)
(* does if the operation sends it a request.                                *)

\* ParsedTaskFromNL(...): pydantic accepts the field values
\* a draft whose confidence has no upper limit
ParsedTaskFromNL_no_le(title, description, tags, due_date, confidence) ==
  /\ title.t = "str"
  /\ description.t \in {"str", "null"}
  /\ tags.t = "list"
  /\ due_date.t \in {"str", "null"}
  /\ confidence.t = "num" /\ 0 <= confidence.n

ParsedTaskFromNL_valid(title, description, tags, due_date, confidence) ==
  /\ title.t = "str"
  /\ description.t \in {"str", "null"}
  /\ tags.t = "list"
  /\ due_date.t \in {"str", "null"}
  /\ confidence.t = "num" /\ 0 <= confidence.n /\ confidence.n <= 10

optional_str(v) == IF v.t = "null" THEN None ELSE v.s

\* the body of `if json_match:` in parse_natural_language_task
parse_from_data(text, data) ==
  LET title == get(data, "title", JStr(slice(text, TitleCap)))
      description == get(data, "description", JNull)
      priority == get(data, "priority", JStr(<<"m","e","d","i","u","m">>))
      tags == get(data, "tags", JList(<<>>))
      due_date == get(data, "due_date", JNull)
      confidence == get(data, "confidence", JNum(DefaultConfidence))
  IN IF ~(priority.t = "str" /\ is_priority_value(priority.s))
     THEN Raise("ValueError")
     ELSE IF ~ParsedTaskFromNL_valid(title, description, tags, due_date, confidence)
     THEN Raise("ValidationError")
     ELSE Return([title |-> title.s,
                  description |-> optional_str(description),
                  priority |-> TaskPriority(priority.s),
                  tags |-> tags.l,
                  due_date |-> optional_str(due_date),
                  confidence |-> confidence.n])

parse_natural_language_task(text, resp) ==
  IF ~_is_available THEN Result(_fallback_parse(text))
  ELSE LET body(data) == parse_from_data(text, data)
       IN try_else_fallback(with_remote_json(resp, body), _fallback_parse(text))

\* the body of `if json_match:` in suggest_tags
suggest_tags_from_data(data) ==
  LET tags == get(data, "tags", JList(<<>>))
  IN IF tags.t \in {"null", "num"} THEN Raise("TypeError")
     ELSE Return([tags |-> py_slice(tags, TagCap),
                  reasoning |-> get(data, "reasoning", JStr(<<>>))])

suggest_tags(title, description, resp) ==
  IF ~_is_available THEN Result(_fallback_suggest_tags(title, description))
  ELSE try_else_fallback(with_remote_json(resp, suggest_tags_from_data),
                         _fallback_suggest_tags(title, description))

\* the body of `if json_match:` in suggest_priority
\* a conversion of the remote priority that raises, as the enum's
\* constructor does, on a string that is no value of the enum
suggest_priority_strict(data) ==
  LET priority == get(data, "priority", JStr(<<"m","e","d","i","u","m">>))
  IN IF priority.t # "str" THEN Raise("AttributeError")
     ELSE LET priority_str == lower(priority.s)
          IN IF is_priority_value(priority_str)
             THEN Return([priority |-> TaskPriority(priority_str),
                          reasoning |-> get(data, "reasoning", JStr(<<>>))])
             ELSE Raise("ValueError")

suggest_priority_from_data(data) ==
  LET priority == get(data, "priority", JStr(<<"m","e","d","i","u","m">>))
  IN IF priority.t # "str" THEN Raise("AttributeError")
     ELSE LET priority_str == lower(priority.s)
          IN Return([priority |-> IF is_priority_value(priority_str)
                                  THEN TaskPriority(priority_str)
                                  ELSE TaskPriority_MEDIUM,
                     reasoning |-> get(data, "reasoning", JStr(<<>>))])

suggest_priority(title, description, resp) ==
  IF ~_is_available THEN Result(_fallback_suggest_priority(title, description))
  ELSE try_else_fallback(with_remote_json(resp, suggest_priority_from_data),
                         _fallback_suggest_priority(title, description))

\* SubTask(title=st.get("title", ""), ..., order=st.get("order", i + 1)) for
\* the subtask at 0-based position i: the field values, then pydantic's check
SubTask_fields(st, i) ==
  [title |-> get(st, "title", JStr(<<>>)),
   description |-> get(st, "description", JNull),
   estimated_effort |-> get(st, "estimated_effort", JNull),
   order |-> get(st, "order", JNum(10 * (i + 1)))]

SubTask_valid(f) ==
  /\ f.title.t = "str"
  /\ f.description.t \in {"str", "null"}
  /\ f.estimated_effort.t \in {"str", "null"}
  /\ f.order.t = "num" /\ f.order.n % 10 = 0

SubTask(f) ==
  [title |-> f.title.s,
   description |-> optional_str(f.description),
   estimated_effort |-> optional_str(f.estimated_effort),
   order |-> f.order.n \div 10]

\* the body of `if json_match:` in breakdown_task
breakdown_from_data(data) ==
  LET subtasks == get(data, "subtasks", JList(<<>>))
      reasoning == get(data, "reasoning", JStr(<<>>))
  IN CASE subtasks.t \in {"null", "num"} -> Raise("TypeError")
       [] subtasks.t \in {"str", "list"} ->
            IF py_len(subtasks) = 0
            THEN Return([subtasks |-> <<>>, reasoning |-> reasoning])
            ELSE Raise("AttributeError")
       [] OTHER ->
            LET fields == [i \in 1..Len(subtasks.o) |-> SubTask_fields(subtasks.o[i], i - 1)]
            IN IF \E i \in 1..Len(fields) : ~SubTask_valid(fields[i])
               THEN Raise("ValidationError")
               ELSE Return([subtasks |-> [i \in 1..Len(fields) |-> SubTask(fields[i])],
                            reasoning |-> reasoning])

breakdown_task(title, description, resp) ==
  IF ~_is_available THEN Result(_fallback_breakdown(title))
  ELSE try_else_fallback(with_remote_json(resp, breakdown_from_data),
                         _fallback_breakdown(title))

\* the body of `if json_match:` in categorize_task
categorize_from_data(data) ==
  Return([category |-> get(data, "category", JStr(<<"o","t","h","e","r">>)),
          subcategories |-> get(data, "subcategories", JList(<<>>)),
          reasoning |-> get(data, "reasoning", JStr(<<>>))])

categorize_task(title, description, resp) ==
  IF ~_is_available THEN Result(_fallback_categorize(title, description))
  ELSE try_else_fallback(with_remote_json(resp, categorize_from_data),
                         _fallback_categorize(title, description))

\* str.strip()
RECURSIVE strip(_)
strip(text) ==
  IF text = <<>> THEN text
  ELSE IF Head(text) = " " THEN strip(Tail(text))
  ELSE IF text[Len(text)] = " " THEN strip(SubSeq(text, 1, Len(text) - 1))
  ELSE text

\* the try block of summarize_tasks
summarize_try(resp) ==
  IF resp.kind = "raise" THEN Raise("APIError")
  ELSE Return(strip(resp.text))

summarize_tasks(task_dicts, resp) ==
  IF ~_is_available \/ task_dicts = <<>> THEN Result(_fallback_summarize(task_dicts))
  ELSE try_else_fallback(summarize_try(resp), _fallback_summarize(task_dicts))

----------------------------------------------------------------------------
(* Embeddings *)

\* length of the local embedding
EmbeddingDim == 256
\* ord(char) % 256
OrdModulus == 256
\* word[:10]
WordPrefix == 10

\* the ASCII characters from " " (32) to "~" (126), in code order; the double
\* quote, the quote, the backslash and the backtick are written DQUOTE, SQUOTE,
\* BSLASH and BTICK
Ascii == <<" ","!","DQUOTE","#","<<",">>%","&","SQUOTE","(",")","*","+",",","-",".","/",
           "0","1","2","3","4","5","6","7","8","9",":",";","<","=",">","?",
           "@","A","B","C","D","E","F","G","H","I","J","K","L","M","N","O",
           "P","Q","R","S","T","U","V","W","X","Y","Z","[","BSLASH","]","^","_",
           "BTICK","a","b","c","d","e","f","g","h","i","j","k","l","m","n","o",
           "p","q","r","s","t","u","v","w","x","y","z","{","|","}","~">>

\* the code points of the other characters the input texts use
OtherOrd == ("U7D27" :> 32039) @@ ("U6025" :> 24613) @@
            ("U4F1A" :> 20250) @@ ("U8BAE" :> 35758)

\* ord(char)
ord(c) ==
  IF c \in DOMAIN OtherOrd THEN OtherOrd[c]
  ELSE 31 + (CHOOSE i \in 1..Len(Ascii) : Ascii[i] = c)

\* str.split(): the maximal runs of non-blank characters, the first of them
\* at or behind position i and the ones behind it
RECURSIVE split_from(_, _)
split_from(text, i) ==
  LET rest == {j \in i..Len(text) : text[j] # " "}
  IN IF rest = {} THEN <<>>
     ELSE LET start == CHOOSE j \in rest : \A k \in rest : j <= k
              blanks == {j \in start..Len(text) : text[j] = " "}
              stop == IF blanks = {} THEN Len(text) + 1
                      ELSE CHOOSE j \in blanks : \A k \in blanks : j <= k
          IN <<SubSeq(text, start, stop - 1)>> \o split_from(text, stop)
split(text) == split_from(text, 1)

\* 1.0 / (i + 1) for the character at 0-based position i, as a multiple of 1/2520
WeightScale == 8 * 9 * 5 * 7
weight(i) == WeightScale \div (i + 1)

RECURSIVE sum_seq(_)
sum_seq(s) == IF s = <<>> THEN 0 ELSE Head(s) + sum_seq(Tail(s))

\* for i, char in enumerate(word[:10]): the pairs (ord(char) % 256, 1.0 / (i + 1))
word_terms(word) ==
  LET w == slice(word, WordPrefix)
  IN [i \in 1..Len(w) |-> [idx |-> ord(w[i]) % OrdModulus, add |-> weight(i - 1)]]

RECURSIVE all_terms(_)
all_terms(words) ==
  IF words = <<>> THEN <<>> ELSE word_terms(Head(words)) \o all_terms(Tail(words))

\* A vector is held up to a positive factor: `v` in whole numbers, and `unit`
\* when the vector the code returns is v divided by its Euclidean norm.
\* NoVector is None where a vector is optional.
Vector(v, unit) == [none |-> FALSE, v |-> v, unit |-> unit]
NoVector == [none |-> TRUE, v |-> <<>>, unit |-> FALSE]

\* an embedding of the text as one word, blanks included
_fallback_embedding_unsplit(text) ==
  LET terms == all_terms(IF text = <<>> THEN <<>> ELSE <<lower(text)>>)
      embedding == [k \in 1..EmbeddingDim |->
                      sum_seq([j \in 1..Len(terms) |->
                                 IF terms[j].idx = k - 1 THEN terms[j].add ELSE 0])]
      norm_positive == \E k \in 1..EmbeddingDim : embedding[k] # 0
  IN Vector(embedding, norm_positive)

_fallback_embedding(text) ==
  LET terms == all_terms(split(lower(text)))
      embedding == [k \in 1..EmbeddingDim |->
                      sum_seq([j \in 1..Len(terms) |->
                                 IF terms[j].idx = k - 1 THEN terms[j].add ELSE 0])]
      norm_positive == \E k \in 1..EmbeddingDim : embedding[k] # 0
  IN Vector(embedding, norm_positive)

get_embedding(text, resp) ==
  IF ~_is_available THEN Result(_fallback_embedding(text))
  ELSE try_else_fallback(IF resp.kind = "raise" THEN Raise("APIError")
                         ELSE Return(Vector(resp.embedding, FALSE)),
                         _fallback_embedding(text))

----------------------------------------------------------------------------
(* Inputs *)

\* phrases the input texts are made of; between them they hit every branch
\* of the priority heuristics and several groups of the tag and category
\* tables
Phrases == <<
  <<"U","r","g","e","n","t">>,
  <<"i","m","p","o","r","t","a","n","t">>,
  <<"b","l","o","c","k","e","r">>,
  <<"s","o","m","e","d","a","y">>,
  <<"w","h","e","n"," ","p","o","s","s","i","b","l","e">>,
  <<"n","i","c","e"," ","t","o"," ","h","a","v","e">>,
  <<"b","u","y"," ","d","e","s","i","g","n"," ","b","o","o","k">>,
  <<"c","o","d","e"," ","c","a","l","l"," ","d","o","c">>,
  <<"u","i"," ","q","a"," ","e","x","p","l","o","r","e">>,
  <<"U7D27","U6025","U4F1A","U8BAE">>
>>

\* the phrases at the indices `idx`, in table order, joined by single blanks
RECURSIVE join_phrases(_, _)
join_phrases(idx, from) ==
  IF \A i \in idx : i < from THEN <<>>
  ELSE LET i == CHOOSE j \in idx : j >= from /\ \A k \in idx : k >= from => j <= k
           rest == join_phrases(idx, i + 1)
       IN IF rest = <<>> THEN Phrases[i] ELSE Phrases[i] \o <<" ">> \o rest

repeat(c, n) == [i \in 1..n |-> c]

\* texts at and beyond the title cap; the keyword of the last lies beyond it
LongTexts ==
  {repeat("x", TitleCap),
   repeat("x", TitleCap + 1),
   repeat("x", TitleCap) \o <<" ","a","s","a","p">>}

\* the input texts: the empty text, a blank, up to MaxWords phrases, the long texts
Texts ==
  {join_phrases(idx, 1) :
     idx \in {s \in SUBSET (1..Len(Phrases)) : Cardinality(s) <= MaxWords}}
  \cup {<<" ">>} \cup LongTexts

Descriptions == {None, <<"m","a","y","b","e"," ","A","S","A","P">>}

\* objects a remote payload is varied from
without(obj, key) == [k \in (DOMAIN obj) \ {key} |-> obj[k]]
override(obj, key, v) == [k \in (DOMAIN obj) \cup {key} |-> IF k = key THEN v ELSE obj[k]]
variants(obj, key, values) ==
  {without(obj, key)} \cup {override(obj, key, v) : v \in values}

\* completions of a chat request built around the payloads: each payload
\* alone, and the first one inside prose, followed by another brace-delimited
\* text, twice, inside prose and followed by another brace-delimited text, and
\* completions without any JSON
ChatResponses(first, payloads) ==
  {Raises, Answer(<<Prose>>), Answer(<<Braces>>),
   Answer(<<Prose, Obj(first), Prose>>),
   Answer(<<Obj(first), Prose, Braces>>),
   Answer(<<Obj(first), Prose, Obj(first)>>),
   Answer(<<Prose, Obj(first), Prose, Braces>>)}
  \cup {Answer(<<Obj(d)>>) : d \in payloads \cup {first, EmptyObject}}

SixTags == <<<<"a">>, <<"b">>, <<"c">>, <<"d">>, <<"e">>, <<"f">>>>

ParsePayload ==
  [title |-> JStr(<<"F","i","x"," ","l","o","g","i","n">>),
   description |-> JStr(<<"o","n"," ","t","h","e"," ","l","o","g","i","n"," ","p","a","g","e">>),
   priority |-> JStr(<<"l","o","w">>),
   tags |-> JList(<<<<"w","o","r","k">>>>),
   due_date |-> JStr(<<"2","0","2","5","-","0","1","-","0","1">>),
   confidence |-> JNum(9)]

ParseResponses ==
  ChatResponses(ParsePayload,
    variants(ParsePayload, "title", {JStr(<<>>), JNull})
    \cup variants(ParsePayload, "description", {JNull})
    \cup variants(ParsePayload, "priority", {JStr(<<"c","r","i","t","i","c","a","l">>), JStr(<<"H","I","G","H">>), JNull})
    \cup variants(ParsePayload, "tags", {JList(<<>>), JList(SixTags), JStr(<<"w","o","r","k">>), JNull})
    \cup variants(ParsePayload, "due_date", {JNull})
    \cup variants(ParsePayload, "confidence",
                  {JNum(0), JNum(10), JNum(11), JNum(0 - 1), JStr(<<"h","i","g","h">>), JNull}))

TagsPayload == [tags |-> JList(<<<<"b","a","c","k","e","n","d">>, <<"a","u","t","h">>>>), reasoning |-> JStr(<<"w","h","y">>)]

TagsResponses ==
  ChatResponses(TagsPayload,
    variants(TagsPayload, "tags",
             {JList(<<>>), JList(SixTags), JStr(<<"b","a","c","k","e","n","d">>), JNull, JNum(10)})
    \cup variants(TagsPayload, "reasoning", {JNull}))

PriorityPayload == [priority |-> JStr(<<"l","o","w">>), reasoning |-> JStr(<<"w","h","y">>)]

PriorityResponses ==
  ChatResponses(PriorityPayload,
    variants(PriorityPayload, "priority",
             {JStr(<<"h","i","g","h">>), JStr(<<"H","I","G","H">>), JStr(<<"c","r","i","t","i","c","a","l">>), JNull, JNum(10)})
    \cup variants(PriorityPayload, "reasoning", {JNull}))

SubtaskPayload ==
  [title |-> JStr(<<"S","t","e","p">>), description |-> JStr(<<"w","h","a","t">>),
   estimated_effort |-> JStr(<<"1"," ","h","o","u","r">>), order |-> JNum(10)]

BreakdownPayload ==
  [subtasks |-> JObjs(<<SubtaskPayload, override(SubtaskPayload, "order", JNum(20))>>),
   reasoning |-> JStr(<<"w","h","y">>)]

BreakdownResponses ==
  ChatResponses(BreakdownPayload,
    variants(BreakdownPayload, "subtasks",
             {JList(<<>>), JNull, JStr(<<"s","t","e","p","s">>),
              JObjs(<<without(SubtaskPayload, "order"), without(SubtaskPayload, "order")>>),
              JObjs(<<override(SubtaskPayload, "order", JNum(30)), SubtaskPayload>>),
              JObjs(<<override(SubtaskPayload, "order", JNum(15))>>),
              JObjs(<<without(SubtaskPayload, "title")>>),
              JObjs(<<override(SubtaskPayload, "title", JNull)>>)}))

CategoryPayload ==
  [category |-> JStr(<<"w","o","r","k">>),
   subcategories |-> JList(<<<<"m","e","e","t","i","n","g">>, <<"p","r","o","j","e","c","t">>>>),
   reasoning |-> JStr(<<"w","h","y">>)]

CategoryResponses ==
  ChatResponses(CategoryPayload,
    variants(CategoryPayload, "category", {JStr(<<"s","h","o","p","p","i","n","g">>), JStr(<<"b","a","n","a","n","a">>), JNull})
    \cup variants(CategoryPayload, "subcategories",
                  {JList(<<>>), JList(<<<<"a">>, <<"b">>, <<"c">>>>), JNull}))

SummaryResponses == {Raises, TextAnswer(<<" ","A","l","l"," ","o","n"," ","t","r","a","c","k","."," ">>), TextAnswer(<<>>)}

EmbeddingResponses ==
  {Raises, EmbeddingAnswer(<<3, 0 - 4, 0>>), EmbeddingAnswer(<<1, 2>>)}

\* the value strings of the task fields summarize_tasks reads
StatusValues == {<<"p","e","n","d","i","n","g">>, <<"i","n","_","p","r","o","g","r","e","s","s">>, <<"c","o","m","p","l","e","t","e","d">>}
PriorityValues == {priority_value(m) : m \in TaskPriorityMembers}

\* most task records in one summary
MaxSummaryTasks == 2

TaskDicts == [title : {<<"T","a","s","k">>}, status : StatusValues, priority : PriorityValues]
TaskDictLists == UNION {[1..n -> TaskDicts] : n \in 0..MaxSummaryTasks}

----------------------------------------------------------------------------
(* The service called directly: one action per operation of AIService *)

\* `last` between two calls
NoCall == [op |-> "none", args |-> <<>>, resp |-> NoRequest, out |-> Result(<<>>)]

\* the answers the remote model may give to the request of a call that
\* sends one; a call that sends none gets no answer
Remote(sends, responses) == IF sends THEN responses ELSE {NoRequest}

\* one call, from its entry to its return: `sends` tells whether it sends a
\* request to the remote model, `resp` is the answer to it, `out` what the
\* caller gets
Call(op, args, sends, resp, out) ==
  /\ sends => remote_calls < MaxRemoteCalls
  /\ last' = [op |-> op, args |-> args, resp |-> resp, out |-> out]
  /\ remote_calls' = IF sends THEN remote_calls + 1 ELSE remote_calls
  /\ UNCHANGED <<api_key, client, tasks, next_id, response, sessions>>

Parse ==
  /\ last = NoCall
  /\ \E text \in Texts : \E resp \in Remote(_is_available, ParseResponses) :
    Call("parse", [text |-> text], _is_available, resp,
         parse_natural_language_task(text, resp))

SuggestTags ==
  /\ last = NoCall
  /\ \E title \in Texts, description \in Descriptions :
    \E resp \in Remote(_is_available, TagsResponses) :
      Call("suggest_tags", [title |-> title, description |-> description],
           _is_available, resp, suggest_tags(title, description, resp))

SuggestPriority ==
  /\ last = NoCall
  /\ \E title \in Texts, description \in Descriptions :
    \E resp \in Remote(_is_available, PriorityResponses) :
      Call("suggest_priority", [title |-> title, description |-> description],
           _is_available, resp, suggest_priority(title, description, resp))

Breakdown ==
  /\ last = NoCall
  /\ \E title \in Texts, description \in Descriptions :
    \E resp \in Remote(_is_available, BreakdownResponses) :
      Call("breakdown", [title |-> title, description |-> description],
           _is_available, resp, breakdown_task(title, description, resp))

Categorize ==
  /\ last = NoCall
  /\ \E title \in Texts, description \in Descriptions :
    \E resp \in Remote(_is_available, CategoryResponses) :
      Call("categorize", [title |-> title, description |-> description],
           _is_available, resp, categorize_task(title, description, resp))

Summarize ==
  /\ last = NoCall
  /\ \E task_dicts \in TaskDictLists :
    \E resp \in Remote(_is_available /\ task_dicts # <<>>, SummaryResponses) :
      Call("summarize", [tasks |-> task_dicts],
           _is_available /\ task_dicts # <<>>, resp,
           summarize_tasks(task_dicts, resp))

GetEmbedding ==
  /\ last = NoCall
  /\ \E text \in Texts : \E resp \in Remote(_is_available, EmbeddingResponses) :
    Call("get_embedding", [text |-> text], _is_available, resp,
         get_embedding(text, resp))

\* `response` between two requests
NoResponse == [route |-> "none", request |-> <<>>, status |-> 0, body |-> <<>>]

\* the caller has taken the result of the last call, or the HTTP client the
\* response to its request
ReturnToCaller ==
  /\ last # NoCall \/ response # NoResponse
  /\ last' = NoCall
  /\ response' = NoResponse
  /\ UNCHANGED <<api_key, client, remote_calls, tasks, next_id, sessions>>

\* AIService.__init__: the client exists exactly when a key is configured
Keys == {<<>>, <<"s","k","-","t","e","s","t">>}

Init ==
  /\ api_key \in Keys
  /\ client = IF api_key # <<>> THEN "AsyncOpenAI" ELSE "None"
  /\ remote_calls = 0
  /\ last = NoCall
  /\ tasks = <<>>
  /\ next_id = 1
  /\ response = NoResponse
  /\ sessions = <<>>

Next ==
  \/ Parse
  \/ SuggestTags
  \/ SuggestPriority
  \/ Breakdown
  \/ Categorize
  \/ Summarize
  \/ GetEmbedding
  \/ ReturnToCaller

Spec == Init /\ [][Next]_vars

----------------------------------------------------------------------------
(* The HTTP routes and the task store *)

\* most rows of table "tasks"
MaxTasks == 2

\* TaskBase.title: Field(..., min_length=1, max_length=255)
TitleMax == 255

\* NaturalLanguageTaskInput: text has min_length=1
\* a text field with no min_length
NaturalLanguageTaskInput_unconstrained(text) == TRUE

NaturalLanguageTaskInput_valid(text) == Len(text) >= 1

\* TaskCreate(title=..., description=..., priority=..., tags=..., status=...)
TaskCreate_valid(task_data) ==
  /\ Len(task_data.title) >= 1
  /\ Len(task_data.title) <= TitleMax

\* Task(...) as the insert stores it: the columns the request does not set
\* take their defaults
Task(id, task_data) ==
  [id |-> id,
   title |-> task_data.title,
   description |-> task_data.description,
   status |-> task_data.status,
   priority |-> task_data.priority,
   tags |-> task_data.tags,
   ai_suggested_tags |-> <<>>,
   ai_suggested_priority |-> None,
   embedding |-> NoVector]

\* responses: 200 with a body, 422 when the request fails validation, 500
\* when the handler raises
Ok(route, request, body) ==
  [route |-> route, request |-> request, status |-> 200, body |-> body]
ValidationError(route, request) ==
  [route |-> route, request |-> request, status |-> 422, body |-> <<>>]
ServerError(route, request) ==
  [route |-> route, request |-> request, status |-> 500, body |-> <<>>]

\* one request, from its arrival to its response: `call` is the call of the
\* assistance engine it makes (NoCall when it makes none)
Request(call, sends, resp, new_tasks, new_next_id) ==
  /\ sends => remote_calls < MaxRemoteCalls
  /\ last' = call
  /\ remote_calls' = IF sends THEN remote_calls + 1 ELSE remote_calls
  /\ response' = resp
  /\ tasks' = new_tasks
  /\ next_id' = new_next_id
  /\ UNCHANGED <<api_key, client, sessions>>

\* the texts and the remote answers of the requests
RouteTexts == {<<>>, <<" ">>, <<"U","r","g","e","n","t">>, <<"c","o","d","e"," ","c","a","l","l"," ","d","o","c">>}

RouteParseResponses ==
  {Raises,
   Answer(<<Obj(ParsePayload)>>),
   Answer(<<Obj(override(ParsePayload, "title", JStr(<<>>)))>>),
   Answer(<<Obj(override(ParsePayload, "tags", JList(SixTags)))>>),
   Answer(<<Obj(EmptyObject)>>)}

\* POST /tasks/ai/parse
parse_natural_language ==
  /\ last = NoCall /\ response = NoResponse
  /\ \E text \in RouteTexts :
       LET request == [text |-> text] IN
       IF ~NaturalLanguageTaskInput_valid(text)
       THEN Request(NoCall, FALSE, ValidationError("parse", request), tasks, next_id)
       ELSE \E resp \in Remote(_is_available, RouteParseResponses) :
              LET out == parse_natural_language_task(text, resp)
                  call == [op |-> "parse", args |-> request, resp |-> resp, out |-> out]
              IN Request(call, _is_available, 
                         IF out.raised THEN ServerError("parse", request)
                         ELSE Ok("parse", request, out.value),
                         tasks, next_id)

\* POST /tasks/ai/create-from-text, for the texts and the remote answers given
create_from_text(texts, responses) ==
  /\ last = NoCall /\ response = NoResponse
  /\ Len(tasks) < MaxTasks
  /\ next_id <= MaxTasks
  /\ \E text \in texts :
       LET request == [text |-> text] IN
       IF ~NaturalLanguageTaskInput_valid(text)
       THEN Request(NoCall, FALSE, ValidationError("create_from_text", request),
                    tasks, next_id)
       ELSE \E resp \in Remote(_is_available, responses) :
              LET out == parse_natural_language_task(text, resp)
                  call == [op |-> "parse", args |-> request, resp |-> resp, out |-> out]
                  parsed == out.value
                  task_data == [title |-> parsed.title,
                                description |-> parsed.description,
                                priority |-> parsed.priority,
                                tags |-> parsed.tags,
                                status |-> TaskStatus_PENDING]
                  task == [Task(next_id, task_data) EXCEPT
                             !.ai_suggested_tags = parsed.tags,
                             !.ai_suggested_priority = priority_value(parsed.priority)]
              IN IF out.raised \/ ~TaskCreate_valid(task_data)
                 THEN Request(call, _is_available,
                              ServerError("create_from_text", request), tasks, next_id)
                 ELSE Request(call, _is_available,
                              Ok("create_from_text", request, task),
                              Append(tasks, task), next_id + 1)

create_task_from_natural_language == create_from_text(RouteTexts, RouteParseResponses)

NextRoutes ==
  \/ parse_natural_language
  \/ create_task_from_natural_language
  \/ ReturnToCaller

SpecRoutes == Init /\ [][NextRoutes]_vars

----------------------------------------------------------------------------
(* Similarity and ranking *)

RECURSIVE gcd(_, _)
gcd(a, b) == IF b = 0 THEN a ELSE gcd(b, a % b)

abs(n) == IF n < 0 THEN 0 - n ELSE n

\* the greatest common divisor of the entries of v (0 when all are 0)
RECURSIVE gcd_of(_)
gcd_of(S) ==
  IF S = {} THEN 0
  ELSE LET n == CHOOSE n \in S : TRUE IN gcd(n, gcd_of(S \ {n}))
gcd_seq(v) == gcd_of({abs(v[i]) : i \in 1..Len(v)} \ {0})

\* v divided by the greatest common divisor of its entries: the same
\* direction in the smallest whole numbers (the cosine does not depend on
\* the length of a vector)
primitive(v) ==
  LET g == gcd_seq(v) IN IF g = 0 THEN v ELSE [i \in 1..Len(v) |-> v[i] \div g]

\* the sum of f[i] over the indices i in S
RECURSIVE sum_at(_, _)
sum_at(f, S) ==
  IF S = {} THEN 0
  ELSE LET i == CHOOSE i \in S : TRUE IN f[i] + sum_at(f, S \ {i})

\* np.dot(vec1, vec2) of two vectors of one length
dot(vec1, vec2) ==
  LET products == [i \in 1..Len(vec1) |-> vec1[i] * vec2[i]]
  IN sum_at(products, {i \in 1..Len(vec1) : products[i] # 0})

\* np.linalg.norm(vec), squared
norm_squared(vec) == dot(vec, vec)

\* A score is held exactly, as the sign of the cosine and its square
\* num / den in lowest terms.  NaN is what 0.0 / 0.0 gives.
Score(dot_product, norms_squared) ==
  IF dot_product = 0 THEN [sign |-> 0, num |-> 0, den |-> 1]
  ELSE LET n == dot_product * dot_product
           g == gcd(n, norms_squared)
       IN [sign |-> IF dot_product < 0 THEN 0 - 1 ELSE 1,
           num |-> n \div g, den |-> norms_squared \div g]
ZeroScore == [sign |-> 0, num |-> 0, den |-> 1]
NaN == [sign |-> 0, num |-> 0, den |-> 0]

\* a < b on scores
score_lt(a, b) ==
  CASE a.sign < b.sign -> TRUE
    [] a.sign > b.sign -> FALSE
    [] a.sign = 0 -> FALSE
    [] a.sign = 1 -> a.num * b.den < b.num * a.den
    [] OTHER -> a.num * b.den > b.num * a.den

\* Field(ge=0, le=1) of a score
score_ge0_le1(a) == a.den > 0 /\ a.sign >= 0 /\ a.num <= a.den

\* a cosine whose norms are taken before the vectors are cut to one length
compute_similarity_norm_of_whole(embedding1, embedding2) ==
  IF embedding1 = <<>> \/ embedding2 = <<>> THEN ZeroScore
  ELSE LET min_len == Min(Len(embedding1), Len(embedding2))
           whole1 == primitive(embedding1)
           whole2 == primitive(embedding2)
           norm1 == norm_squared(whole1)
           norm2 == norm_squared(whole2)
       IN IF norm1 = 0 \/ norm2 = 0 THEN ZeroScore
          ELSE Score(dot(slice(whole1, min_len), slice(whole2, min_len)), norm1 * norm2)

\* a cosine that divides whatever the norms are
compute_similarity_unguarded(embedding1, embedding2) ==
  IF embedding1 = <<>> \/ embedding2 = <<>> THEN ZeroScore
  ELSE LET min_len == Min(Len(embedding1), Len(embedding2))
           vec1 == primitive(slice(embedding1, min_len))
           vec2 == primitive(slice(embedding2, min_len))
           norm1 == norm_squared(vec1)
           norm2 == norm_squared(vec2)
       IN IF norm1 = 0 \/ norm2 = 0 THEN NaN
          ELSE Score(dot(vec1, vec2), norm1 * norm2)

compute_similarity(embedding1, embedding2) ==
  IF embedding1 = <<>> \/ embedding2 = <<>> THEN ZeroScore
  ELSE LET min_len == Min(Len(embedding1), Len(embedding2))
           vec1 == primitive(slice(embedding1, min_len))
           vec2 == primitive(slice(embedding2, min_len))
           dot_product == dot(vec1, vec2)
           norm1 == norm_squared(vec1)
           norm2 == norm_squared(vec2)
       IN IF norm1 = 0 \/ norm2 = 0 THEN ZeroScore
          ELSE Score(dot_product, norm1 * norm2)

\* bool(embedding) of an optional list: neither None nor empty
truthy(embedding) == ~embedding.none /\ embedding.v # <<>>

\* a sort that puts an entry before the entries of the same score
insert_desc_before_equal(sorted, entry) ==
  LET k == Cardinality({i \in 1..Len(sorted) : score_lt(entry.score, sorted[i].score)})
  IN SubSeq(sorted, 1, k) \o <<entry>> \o SubSeq(sorted, k + 1, Len(sorted))

\* list.sort(key=lambda x: x[1], reverse=True): stable, so an entry goes
\* behind every entry already placed whose score is not lower
insert_desc(sorted, entry) ==
  LET k == Cardinality({i \in 1..Len(sorted) : ~score_lt(sorted[i].score, entry.score)})
  IN SubSeq(sorted, 1, k) \o <<entry>> \o SubSeq(sorted, k + 1, Len(sorted))

RECURSIVE sort_desc_from(_, _)
sort_desc_from(sorted, rest) ==
  IF rest = <<>> THEN sorted
  ELSE sort_desc_from(insert_desc(sorted, Head(rest)), Tail(rest))

sort_desc(similarities) == sort_desc_from(<<>>, similarities)

\* scoring that takes a missing embedding as an empty one
scored_all(query_embedding, candidates) ==
  [i \in 1..Len(candidates) |->
     [task |-> candidates[i],
      score |-> compute_similarity(query_embedding.v, candidates[i].embedding.v)]]

\* the (task, similarity) pairs of the candidates that have an embedding
scored(query_embedding, candidates) ==
  LET with_embedding == SelectSeq(candidates, LAMBDA task : truthy(task.embedding))
  IN [i \in 1..Len(with_embedding) |->
        [task |-> with_embedding[i],
         score |-> compute_similarity(query_embedding.v, with_embedding[i].embedding.v)]]

find_similar_tasks(task_title, task_description, all_tasks, limit, resp) ==
  LET query_text == title_and_description(task_title, task_description)
      query_embedding == get_embedding(query_text, resp).value
  IN IF ~truthy(query_embedding) THEN Result(<<>>)
     ELSE Result(slice(sort_desc(scored(query_embedding, all_tasks)), limit))

----------------------------------------------------------------------------
(* compute_similarity and find_similar_tasks called directly *)

\* most candidate tasks in one call of find_similar_tasks
MaxCandidates == 3
\* greatest limit of a ranking
MaxLimit == 2

\* a remote embedding longer than a local one, negative at ord("a") and
\* positive at ord("b")
LongRemote ==
  [k \in 1..(EmbeddingDim + 1) |-> IF k = 98 THEN 0 - 1 ELSE IF k = 99 THEN 1 ELSE 0]

SimilarityVectors ==
  {<<>>, <<1, 2>>, <<2, 4>>, <<1, 2, 2>>, <<3, 0 - 4, 0>>, <<0, 0, 5>>, <<0 - 1, 0 - 2>>,
   LongRemote, _fallback_embedding(<<" ">>).v, _fallback_embedding(<<"a","b">>).v,
   _fallback_embedding(<<"b","a">>).v}

\* what a task record may hold as its embedding: none, an empty list, remote
\* vectors, local vectors
StoredEmbeddings ==
  {NoVector, Vector(<<>>, FALSE), Vector(<<1, 2>>, FALSE), Vector(<<2, 4>>, FALSE),
   _fallback_embedding(<<"a","b">>), _fallback_embedding(<<"b","a">>)}

\* the task dicts of a call: the candidate at position i has id i
CandidateLists ==
  UNION {[1..n -> StoredEmbeddings] : n \in 0..MaxCandidates}
candidates_of(embeddings) ==
  [i \in 1..Len(embeddings) |-> [id |-> i, embedding |-> embeddings[i]]]

QueryTitles == {<<"a","b">>, <<" ">>}

QueryEmbeddingResponses ==
  {Raises, EmbeddingAnswer(<<>>), EmbeddingAnswer(<<3, 0 - 4, 0>>), EmbeddingAnswer(<<1, 2>>),
   EmbeddingAnswer(LongRemote)}

ComputeSimilarity ==
  /\ last = NoCall
  /\ \E embedding1 \in SimilarityVectors, embedding2 \in SimilarityVectors :
       Call("compute_similarity",
            [embedding1 |-> embedding1, embedding2 |-> embedding2],
            FALSE, NoRequest, Result(compute_similarity(embedding1, embedding2)))

FindSimilarTasks ==
  /\ last = NoCall
  /\ \E task_title \in QueryTitles, embeddings \in CandidateLists, limit \in 1..MaxLimit :
     \E resp \in Remote(_is_available, QueryEmbeddingResponses) :
       Call("find_similar_tasks",
            [task_title |-> task_title, task_description |-> None,
             all_tasks |-> candidates_of(embeddings), limit |-> limit],
            _is_available, resp,
            find_similar_tasks(task_title, None, candidates_of(embeddings), limit, resp))

NextSimilarity == ComputeSimilarity \/ FindSimilarTasks \/ ReturnToCaller

SpecSimilarity == Init /\ [][NextSimilarity]_vars

----------------------------------------------------------------------------
(* Creating tasks and searching them *)

\* SemanticSearchRequest.limit: Field(default=10, ge=1, le=50)
LimitMax == 50

\* most requests to the remote model in one behaviour of the routes below: a
\* handler sends up to three
MaxRequests == 3 * MaxRemoteCalls

\* one request whose handler calls the assistance engine several times:
\* `call` is the last of the calls, `sent` the number of requests to the
\* remote model
Requests(call, sent, resp, new_tasks, new_next_id) ==
  /\ remote_calls + sent <= MaxRequests
  /\ last' = call
  /\ remote_calls' = remote_calls + sent
  /\ response' = resp
  /\ tasks' = new_tasks
  /\ next_id' = new_next_id
  /\ UNCHANGED <<api_key, client, sessions>>

\* 201 of POST /tasks/
Created(route, request, body) ==
  [route |-> route, request |-> request, status |-> 201, body |-> body]

\* a list of tags as column ai_suggested_tags holds it (a string, which the
\* remote path may return for the list, is held as a list of that one string)
stored_tags(tags) == IF tags.t = "list" THEN tags.l ELSE <<tags.s>>

\* TaskService.create_task with auto_suggest: the row, given the answers of
\* the remote model to the three requests it sends
create_task(id, task_data, tags_resp, priority_resp, embedding_resp) ==
  LET suggested_tags == suggest_tags(task_data.title, task_data.description,
                                     tags_resp).value.tags
      suggested_priority == suggest_priority(task_data.title, task_data.description,
                                             priority_resp).value.priority
      text == title_and_description(task_data.title, task_data.description)
      embedding == get_embedding(text, embedding_resp).value
  IN [Task(id, task_data) EXCEPT
        !.ai_suggested_tags = stored_tags(suggested_tags),
        !.ai_suggested_priority = priority_value(suggested_priority),
        !.embedding = embedding]

\* the requests of the searches and of the tasks they search
SearchTitles == {<<"a","b">>, <<"b","a">>}
SearchQueries == {<<>>, <<"a","b">>, <<" ">>}
StoredEmbeddingResponses == {Raises, EmbeddingAnswer(<<1, 2>>), EmbeddingAnswer(<<2, 4>>)}

\* TaskCreate(title=...) with the defaults of the fields the client leaves out
TaskCreate(title) ==
  [title |-> title, description |-> None, status |-> TaskStatus_PENDING,
   priority |-> TaskPriority_MEDIUM, tags |-> <<>>]

\* POST /tasks/, for the requests and the answers to the embeddings request
\* given
create_task_with(requests, embedding_responses) ==
  /\ last = NoCall /\ response = NoResponse
  /\ Len(tasks) < MaxTasks
  /\ next_id <= MaxTasks
  /\ \E task_data \in requests :
       IF ~TaskCreate_valid(task_data)
       THEN Requests(NoCall, 0, ValidationError("create", task_data), tasks, next_id)
       ELSE \E tags_resp \in Remote(_is_available, {Answer(<<Obj(TagsPayload)>>)}),
               priority_resp \in Remote(_is_available, {Answer(<<Obj(PriorityPayload)>>)}),
               embedding_resp \in Remote(_is_available, embedding_responses) :
              LET task == create_task(next_id, task_data, tags_resp, priority_resp,
                                      embedding_resp)
                  text == title_and_description(task_data.title, task_data.description)
                  call == [op |-> "get_embedding", args |-> [text |-> text],
                           resp |-> embedding_resp, out |-> Result(task.embedding)]
              IN Requests(call, IF _is_available THEN 3 ELSE 0,
                          Created("create", task_data, task),
                          Append(tasks, task), next_id + 1)

create_task_route ==
  create_task_with({TaskCreate(title) : title \in SearchTitles \cup {<<>>}},
                   StoredEmbeddingResponses)

\* POST /tasks/ai/create-from-text, which stores no embedding
create_from_text_without_embedding == create_from_text({<<"a","b">>}, {Raises})

\* a search that scores every stored task, taking a missing embedding as an
\* empty one
semantic_search_every_task(query, limit, resp) ==
  LET query_embedding == get_embedding(query, resp).value
  IN IF ~truthy(query_embedding) THEN <<>>
     ELSE slice(sort_desc(scored_all(query_embedding, tasks)), limit)

\* TaskService.semantic_search
semantic_search(query, limit, resp) ==
  LET query_embedding == get_embedding(query, resp).value
  IN IF ~truthy(query_embedding) THEN <<>>
     ELSE LET with_embedding == SelectSeq(tasks, LAMBDA task : ~task.embedding.none)
          IN slice(sort_desc(scored(query_embedding, with_embedding)), limit)

SemanticSearchRequest_valid(request) ==
  /\ Len(request.query) >= 1
  /\ request.limit >= 1 /\ request.limit <= LimitMax

SemanticSearchResult_valid(result) == score_ge0_le1(result.score)

\* POST /tasks/ai/semantic-search, for the queries and the answers to the
\* embeddings request given
semantic_search_with(queries, embedding_responses) ==
  /\ last = NoCall /\ response = NoResponse
  /\ \E query \in queries, limit \in 0..MaxLimit :
       LET request == [query |-> query, limit |-> limit] IN
       IF ~SemanticSearchRequest_valid(request)
       THEN Requests(NoCall, 0, ValidationError("semantic_search", request),
                     tasks, next_id)
       ELSE \E resp \in Remote(_is_available, embedding_responses) :
              LET results == semantic_search(query, limit, resp)
                  call == [op |-> "semantic_search", args |-> request, resp |-> resp,
                           out |-> Result(results)]
              IN Requests(call, IF _is_available THEN 1 ELSE 0,
                         IF \E i \in 1..Len(results) : ~SemanticSearchResult_valid(results[i])
                         THEN ServerError("semantic_search", request)
                         ELSE Ok("semantic_search", request,
                                 [results |-> results, query |-> query]),
                         tasks, next_id)

semantic_search_route == semantic_search_with(SearchQueries, QueryEmbeddingResponses)

NextSearch ==
  \/ create_task_route
  \/ create_from_text_without_embedding
  \/ semantic_search_route
  \/ ReturnToCaller

SpecSearch == Init /\ [][NextSearch]_vars

----------------------------------------------------------------------------
(* Insights over a task collection *)

\* a dict of counts is held as its items, in the order the keys were first
\* set: d.get(key, 0)
count_of(d, key) ==
  IF \E i \in 1..Len(d) : d[i].key = key
  THEN d[CHOOSE i \in 1..Len(d) : d[i].key = key].count
  ELSE 0

\* d[key] = d.get(key, 0) + 1
incr(d, key) ==
  IF \E i \in 1..Len(d) : d[i].key = key
  THEN [i \in 1..Len(d) |->
          IF d[i].key = key THEN [key |-> key, count |-> d[i].count + 1] ELSE d[i]]
  ELSE Append(d, [key |-> key, count |-> 1])

\* for tag in tags: by_tag[tag] = by_tag.get(tag, 0) + 1, over the first n tags
RECURSIVE incr_each(_, _, _)
incr_each(d, tags, n) ==
  IF n = 0 THEN d ELSE incr(incr_each(d, tags, n - 1), tags[n])

\* the three distributions after the first n tasks
RECURSIVE tally(_, _)
tally(task_dicts, n) ==
  IF n = 0 THEN [by_status |-> <<>>, by_priority |-> <<>>, by_tag |-> <<>>]
  ELSE LET before == tally(task_dicts, n - 1)
           task == task_dicts[n]
           status == get(task, "status", <<"p","e","n","d","i","n","g">>)
           priority == get(task, "priority", <<"m","e","d","i","u","m">>)
           tags == get(task, "tags", <<>>)
       IN [by_status |-> incr(before.by_status, status),
           by_priority |-> incr(before.by_priority, priority),
           by_tag |-> incr_each(before.by_tag, tags, Len(tags))]

\* a count of half the total or more
at_least_half(count, total) == 2 * count >= total

\* count > total * 0.5
more_than_half(count, total) == 2 * count > total

\* by_status.get("completed", 0) / total * 100, held as the exact quotient in
\* lowest terms
completion_rate_of(completed, total) ==
  LET divisor == gcd(100 * completed, total)
  IN [num |-> (100 * completed) \div divisor, den |-> total \div divisor]

\* f"{rate:.1f}": the nearest tenth, a tie going to the even one
format_1f(rate) ==
  LET q == (10 * rate.num) \div rate.den
      r == (10 * rate.num) % rate.den
      tenths == IF 2 * r > rate.den \/ (2 * r = rate.den /\ q % 2 = 1) THEN q + 1 ELSE q
  IN int_str(tenths \div 10) \o <<".">> \o int_str(tenths % 10)

\* an item put before the items of the sorted list that count more
insert_by_count_before_equal(sorted, item) ==
  LET k == Cardinality({i \in 1..Len(sorted) : sorted[i].count > item.count})
  IN SubSeq(sorted, 1, k) \o <<item>> \o SubSeq(sorted, k + 1, Len(sorted))

\* an item put behind the items of the sorted list that count no less
insert_by_count(sorted, item) ==
  LET k == Cardinality({i \in 1..Len(sorted) : sorted[i].count >= item.count})
  IN SubSeq(sorted, 1, k) \o <<item>> \o SubSeq(sorted, k + 1, Len(sorted))

\* sorted(items, key=lambda x: x[1], reverse=True) of the first n items:
\* the sort is stable
RECURSIVE sorted_by_count(_, _)
sorted_by_count(items, n) ==
  IF n = 0 THEN <<>> ELSE insert_by_count(sorted_by_count(items, n - 1), items[n])

\* ', '.join(strs)
RECURSIVE join(_)
join(strs) ==
  IF strs = <<>> THEN <<>>
  ELSE IF Len(strs) = 1 THEN strs[1]
  ELSE strs[1] \o <<","," ">> \o join(Tail(strs))

\* [t[0] for t in sorted(by_tag.items(), ...)[:3]]
top_tags(by_tag) ==
  LET sorted == sorted_by_count(by_tag, Len(by_tag))
  IN [i \in 1..Min(3, Len(sorted)) |-> sorted[i].key]

PendingInsight == <<"U8D85","U8FC7","U4E00","U534A","U7684","U4EFB","U52A1","U4ECD","U5728","U5F85","U5904","U7406","U72B6","U6001">>
PendingRecommendation == <<"U5EFA","U8BAE","U4F18","U5148","U5904","U7406","U79EF","U538B","U7684","U4EFB","U52A1">>
HighPriorityInsight(count) == <<"U60A8","U6709"," ">> \o int_str(count) \o <<" ","U4E2A","U9AD8","U4F18","U5148","U7EA7","U4EFB","U52A1">>
HighPriorityRecommendation == <<"U8003","U8651","U5148","U5B8C","U6210","U9AD8","U4F18","U5148","U7EA7","U4EFB","U52A1">>
CompletionRatePrefix == <<"U4EFB","U52A1","U5B8C","U6210","U7387",":"," ">>
TopTagsPrefix == <<"U6700","U5E38","U7528","U7684","U6807","U7B7E",":"," ">>

generate_task_insights(task_dicts) ==
  IF task_dicts = <<>>
  THEN [total |-> 0, insights |-> <<>>, recommendations |-> <<>>]
  ELSE LET total == Len(task_dicts)
           counts == tally(task_dicts, total)
           by_status == counts.by_status
           by_priority == counts.by_priority
           by_tag == counts.by_tag
           pending == more_than_half(count_of(by_status, <<"p","e","n","d","i","n","g">>), total)
           high == count_of(by_priority, <<"h","i","g","h">>) > 3
           completion_rate == IF total > 0
                              THEN completion_rate_of(count_of(by_status, <<"c","o","m","p","l","e","t","e","d">>), total)
                              ELSE completion_rate_of(0, 1)
       IN [total |-> total,
           by_status |-> by_status,
           by_priority |-> by_priority,
           by_tag |-> by_tag,
           completion_rate |-> completion_rate,
           insights |->
             (IF pending THEN <<PendingInsight>> ELSE <<>>)
             \o (IF high THEN <<HighPriorityInsight(count_of(by_priority, <<"h","i","g","h">>))>> ELSE <<>>)
             \o <<CompletionRatePrefix \o format_1f(completion_rate) \o <<"%">> >>
             \o (IF by_tag # <<>> THEN <<TopTagsPrefix \o join(top_tags(by_tag))>> ELSE <<>>),
           recommendations |->
             (IF pending THEN <<PendingRecommendation>> ELSE <<>>)
             \o (IF high THEN <<HighPriorityRecommendation>> ELSE <<>>)]

\* the tasks of a collection: a record without status, priority or tags, and
\* records with them
MaxInsightTasks == 4

InsightTasks ==
  { [title |-> <<"t">>],
    [title |-> <<"t">>, status |-> <<"p","e","n","d","i","n","g">>, priority |-> <<"h","i","g","h">>, tags |-> <<<<"b">>, <<"a">>>>],
    [title |-> <<"t">>, status |-> <<"c","o","m","p","l","e","t","e","d">>, priority |-> <<"h","i","g","h">>, tags |-> <<<<"a">>>>],
    [title |-> <<"t">>, status |-> <<"c","o","m","p","l","e","t","e","d">>, priority |-> <<"m","e","d","i","u","m">>, tags |-> <<>>],
    [title |-> <<"t">>, status |-> <<"i","n","_","p","r","o","g","r","e","s","s">>, priority |-> <<"l","o","w">>, tags |-> <<<<"c">>, <<"d">>>>] }

InsightTaskLists == UNION {[1..n -> InsightTasks] : n \in 0..MaxInsightTasks}

GenerateTaskInsights ==
  /\ last = NoCall
  /\ \E task_list \in InsightTaskLists :
       Call("generate_task_insights", [tasks |-> task_list],
            FALSE, NoRequest, Result(generate_task_insights(task_list)))

NextInsights == GenerateTaskInsights \/ ReturnToCaller

SpecInsights == Init /\ [][NextInsights]_vars

----------------------------------------------------------------------------
(* Reading, updating and deleting stored tasks *)

\* 404 of a route whose task does not exist, 204 of DELETE
NotFound_as_success(route, request) ==
  [route |-> route, request |-> request, status |-> 200, body |-> <<>>]
NotFound(route, request) ==
  [route |-> route, request |-> request, status |-> 404, body |-> <<>>]
NoContent(route, request) ==
  [route |-> route, request |-> request, status |-> 204, body |-> <<>>]

\* TaskService.get_task: scalar_one_or_none of the rows with the id
task_exists(task_id) == \E i \in 1..Len(tasks) : tasks[i].id = task_id
get_task(task_id) == tasks[CHOOSE i \in 1..Len(tasks) : tasks[i].id = task_id]

\* a field of TaskUpdate the request does not set, and the null of a
\* status or a priority (their other values are the names of the enums)
Unset == <<"Unset">>
UnsetEnum == "Unset"
NoneEnum == "None"
unset_of(field) == IF field \in {"status", "priority"} THEN UnsetEnum ELSE Unset

TaskUpdate(title, description, status, priority, tags) ==
  [title |-> title, description |-> description, status |-> status,
   priority |-> priority, tags |-> tags]

\* TaskUpdate.title: Optional[str], Field(None, min_length=1, max_length=255)
TaskUpdate_valid(task_data) ==
  \/ task_data.title \in {Unset, None}
  \/ Len(task_data.title) >= 1 /\ Len(task_data.title) <= TitleMax

\* the keys of task_data.model_dump(exclude_unset=True)
model_dump(task_data) ==
  {field \in DOMAIN task_data : task_data[field] # unset_of(field)}

embedding_text_title_only(task) ==
  IF task.title = None THEN <<"N","o","n","e">> ELSE task.title

\* f"{task.title} {task.description or ''}" of a row whose title may be None
embedding_text(task) ==
  title_and_description(IF task.title = None THEN <<"N","o","n","e">> ELSE task.title,
                        task.description)

update_load_if_changed(task, task_data) ==
  LET update_data == model_dump(task_data)
      loaded == [field \in DOMAIN task |->
                   IF field \in update_data THEN task_data[field] ELSE task[field]]
  IN [task |-> loaded,
      update_data |-> update_data,
      embeds |-> loaded.title # task.title \/ loaded.description # task.description,
      text |-> embedding_text(loaded)]

\* update_task from the row it loads to the await of the embedding: the row
\* with the fields of the request set, the columns it has set, and the text
\* it embeds when the request sets title or description
update_load(task, task_data) ==
  LET update_data == model_dump(task_data)
      loaded == [field \in DOMAIN task |->
                   IF field \in update_data THEN task_data[field] ELSE task[field]]
  IN [task |-> loaded,
      update_data |-> update_data,
      embeds |-> "title" \in update_data \/ "description" \in update_data,
      text |-> embedding_text(loaded)]

\* columns title, status and priority are nullable=False: the UPDATE of a
\* commit that sets one of them to None fails
commit_ok(session) ==
  /\ session.task.title # None
  /\ session.task.status # NoneEnum
  /\ session.task.priority # NoneEnum

\* db.commit(): the UPDATE writes the columns the request has set, and the
\* embedding when it was computed, to the row with the id
update_commit(rows, session, embedding) ==
  [i \in 1..Len(rows) |->
     IF rows[i].id # session.task.id THEN rows[i]
     ELSE [field \in DOMAIN rows[i] |->
             IF field \in session.update_data THEN session.task[field]
             ELSE IF field = "embedding" /\ session.embeds THEN embedding
             ELSE rows[i][field]]]

\* the call of get_embedding an update makes (none when it embeds nothing)
embedding_call(session, resp) ==
  IF session.embeds
  THEN [op |-> "get_embedding", args |-> [text |-> session.text], resp |-> resp,
        out |-> get_embedding(session.text, resp)]
  ELSE NoCall

\* PUT /tasks/{task_id}, for the ids, the requests and the answers to the
\* embeddings request given
update_task_with(task_ids, requests, embedding_responses) ==
  /\ last = NoCall /\ response = NoResponse
  /\ \E task_id \in task_ids, task_data \in requests :
       LET request == [task_id |-> task_id, task_data |-> task_data] IN
       IF ~TaskUpdate_valid(task_data)
       THEN Requests(NoCall, 0, ValidationError("update", request), tasks, next_id)
       ELSE IF ~task_exists(task_id)
       THEN Requests(NoCall, 0, NotFound("update", request), tasks, next_id)
       ELSE LET session == update_load(get_task(task_id), task_data)
                sends == session.embeds /\ _is_available
            IN \E resp \in Remote(sends, embedding_responses) :
                 LET call == embedding_call(session, resp)
                     rows == update_commit(tasks, session, call.out.value)
                     row == rows[CHOOSE i \in 1..Len(rows) : rows[i].id = task_id]
                 IN IF ~commit_ok(session)
                    THEN Requests(call, IF sends THEN 1 ELSE 0,
                                  ServerError("update", request), tasks, next_id)
                    ELSE Requests(call, IF sends THEN 1 ELSE 0,
                                  Ok("update", request, row), rows, next_id)

\* GET /tasks/{task_id}
get_task_route(task_ids) ==
  /\ last = NoCall /\ response = NoResponse
  /\ \E task_id \in task_ids :
       LET request == [task_id |-> task_id] IN
       IF ~task_exists(task_id)
       THEN Requests(NoCall, 0, NotFound("get", request), tasks, next_id)
       ELSE Requests(NoCall, 0, Ok("get", request, get_task(task_id)), tasks, next_id)

\* DELETE /tasks/{task_id}
delete_task_route(task_ids) ==
  /\ last = NoCall /\ response = NoResponse
  /\ \E task_id \in task_ids :
       LET request == [task_id |-> task_id] IN
       IF ~task_exists(task_id)
       THEN Requests(NoCall, 0, NotFound("delete", request), tasks, next_id)
       ELSE Requests(NoCall, 0, NoContent("delete", request),
                     SelectSeq(tasks, LAMBDA task : task.id # task_id), next_id)

set_column_and_tags(rows, task_id, field, value) ==
  [i \in 1..Len(rows) |->
     IF rows[i].id = task_id
     THEN [rows[i] EXCEPT ![field] = value,
                          !.tags = IF field = "ai_suggested_tags" THEN value ELSE @]
     ELSE rows[i]]

\* the rows with column `field` of the row with the id set to the value
set_column(rows, task_id, field, value) ==
  [i \in 1..Len(rows) |->
     IF rows[i].id = task_id THEN [rows[i] EXCEPT ![field] = value] ELSE rows[i]]

\* reasoning: Optional[str] of the response schemas
optional_str_valid(v) == v.t \in {"str", "null"}

\* TagSuggestionResponse(task_id=..., suggested_tags=..., reasoning=...)
TagSuggestionResponse_valid(suggested_tags, reasoning) ==
  suggested_tags.t = "list" /\ optional_str_valid(reasoning)

\* POST /tasks/{task_id}/ai/suggest-tags: the suggestion is committed before
\* the response is built
suggest_tags_for_task(task_ids, responses) ==
  /\ last = NoCall /\ response = NoResponse
  /\ \E task_id \in task_ids :
       LET request == [task_id |-> task_id] IN
       IF ~task_exists(task_id)
       THEN Requests(NoCall, 0, NotFound("suggest_tags", request), tasks, next_id)
       ELSE \E resp \in Remote(_is_available, responses) :
              LET task == get_task(task_id)
                  out == suggest_tags(task.title, task.description, resp)
                  call == [op |-> "suggest_tags",
                           args |-> [title |-> task.title, description |-> task.description],
                           resp |-> resp, out |-> out]
                  sent == IF _is_available THEN 1 ELSE 0
              IN IF out.raised
                 THEN Requests(call, sent, ServerError("suggest_tags", request),
                               tasks, next_id)
                 ELSE Requests(call, sent,
                        IF TagSuggestionResponse_valid(out.value.tags, out.value.reasoning)
                        THEN Ok("suggest_tags", request,
                                [task_id |-> task_id, suggested_tags |-> out.value.tags,
                                 reasoning |-> out.value.reasoning])
                        ELSE ServerError("suggest_tags", request),
                        set_column(tasks, task_id, "ai_suggested_tags",
                                   stored_tags(out.value.tags)),
                        next_id)

\* POST /tasks/{task_id}/ai/suggest-priority
suggest_priority_for_task(task_ids, responses) ==
  /\ last = NoCall /\ response = NoResponse
  /\ \E task_id \in task_ids :
       LET request == [task_id |-> task_id] IN
       IF ~task_exists(task_id)
       THEN Requests(NoCall, 0, NotFound("suggest_priority", request), tasks, next_id)
       ELSE \E resp \in Remote(_is_available, responses) :
              LET task == get_task(task_id)
                  out == suggest_priority(task.title, task.description, resp)
                  call == [op |-> "suggest_priority",
                           args |-> [title |-> task.title, description |-> task.description],
                           resp |-> resp, out |-> out]
                  sent == IF _is_available THEN 1 ELSE 0
              IN IF out.raised
                 THEN Requests(call, sent, ServerError("suggest_priority", request),
                               tasks, next_id)
                 ELSE Requests(call, sent,
                        IF optional_str_valid(out.value.reasoning)
                        THEN Ok("suggest_priority", request,
                                [task_id |-> task_id,
                                 suggested_priority |-> out.value.priority,
                                 reasoning |-> out.value.reasoning])
                        ELSE ServerError("suggest_priority", request),
                        set_column(tasks, task_id, "ai_suggested_priority",
                                   priority_value(out.value.priority)),
                        next_id)

\* POST /tasks/{task_id}/ai/breakdown
breakdown_task_route(task_ids, responses) ==
  /\ last = NoCall /\ response = NoResponse
  /\ \E task_id \in task_ids :
       LET request == [task_id |-> task_id] IN
       IF ~task_exists(task_id)
       THEN Requests(NoCall, 0, NotFound("breakdown", request), tasks, next_id)
       ELSE \E resp \in Remote(_is_available, responses) :
              LET task == get_task(task_id)
                  out == breakdown_task(task.title, task.description, resp)
                  call == [op |-> "breakdown",
                           args |-> [title |-> task.title, description |-> task.description],
                           resp |-> resp, out |-> out]
              IN Requests(call, IF _is_available THEN 1 ELSE 0,
                          IF out.raised \/ ~optional_str_valid(out.value.reasoning)
                          THEN ServerError("breakdown", request)
                          ELSE Ok("breakdown", request,
                                  [original_task_id |-> task_id,
                                   subtasks |-> out.value.subtasks,
                                   reasoning |-> out.value.reasoning]),
                          tasks, next_id)

----------------------------------------------------------------------------
(* Assistance on stored tasks *)

\* the ids the requests address: those of the rows there can be, and one
\* more
StoreIds == 1..(MaxTasks + 1)

\* what the user enters for a task
UserTask ==
  [title |-> <<"U","r","g","e","n","t"," ","c","a","l","l">>, description |-> None, status |-> TaskStatus_IN_PROGRESS,
   priority |-> TaskPriority_MEDIUM, tags |-> <<<<"m","i","n","e">>>>]

assist_create == create_task_with({UserTask}, {Raises})

assist_get == get_task_route(StoreIds)

assist_delete == delete_task_route(StoreIds)

assist_update ==
  update_task_with(StoreIds,
                   {TaskUpdate(Unset, Unset, TaskStatus_COMPLETED, UnsetEnum, Unset),
                    TaskUpdate(<<>>, Unset, UnsetEnum, UnsetEnum, Unset)},
                   {Raises})

assist_suggest_tags ==
  suggest_tags_for_task(StoreIds, {Raises, Answer(<<Obj(TagsPayload)>>)})

assist_suggest_priority ==
  suggest_priority_for_task(StoreIds,
    {Raises, Answer(<<Obj(PriorityPayload)>>),
     Answer(<<Obj(override(PriorityPayload, "priority", JStr(<<"c","r","i","t","i","c","a","l">>)))>>)})

assist_breakdown ==
  breakdown_task_route(StoreIds, {Raises, Answer(<<Obj(BreakdownPayload)>>)})

NextAssist ==
  \/ assist_create
  \/ assist_get
  \/ assist_delete
  \/ assist_update
  \/ assist_suggest_tags
  \/ assist_suggest_priority
  \/ assist_breakdown
  \/ ReturnToCaller

SpecAssist == Init /\ [][NextAssist]_vars

----------------------------------------------------------------------------
(* Updating stored tasks, one request after the other *)

\* the requests of the updates: each sets the fields it names; the two last
\* set the title to the empty string and to null
TaskUpdates ==
  {TaskUpdate(<<"b","a">>, Unset, UnsetEnum, UnsetEnum, Unset),
   TaskUpdate(Unset, <<"a","b">>, UnsetEnum, UnsetEnum, Unset),
   TaskUpdate(Unset, None, UnsetEnum, UnsetEnum, Unset),
   TaskUpdate(Unset, Unset, TaskStatus_COMPLETED, TaskPriority_HIGH, <<<<"x">>>>),
   TaskUpdate(<<>>, Unset, UnsetEnum, UnsetEnum, Unset),
   TaskUpdate(None, Unset, UnsetEnum, UnsetEnum, Unset)}

UpdateEmbeddingResponses == {Raises, EmbeddingAnswer(<<1, 2>>)}

update_create == create_task_with({TaskCreate(<<"a","b">>)}, UpdateEmbeddingResponses)

update_task_route == update_task_with(1..MaxTasks, TaskUpdates, UpdateEmbeddingResponses)

NextUpdate ==
  \/ update_create
  \/ update_task_route
  \/ ReturnToCaller

SpecUpdate == Init /\ [][NextUpdate]_vars

----------------------------------------------------------------------------
(* Updates that overlap *)

\* the requests an update handler may hold suspended at once
MaxSessions == 2

\* get_db: every request gets a session of its own, which holds the row as
\* the request loaded it and changed it, apart from the store and from the
\* sessions of the other requests, until it commits
get_db(request, session) ==
  [request |-> request, task |-> session.task, update_data |-> session.update_data,
   embeds |-> session.embeds, text |-> session.text]

\* PUT /tasks/{task_id} from the arrival of the request to the await of the
\* embedding: the handler has loaded the row and set the fields on it
update_task_begin(task_ids, requests) ==
  /\ last = NoCall /\ response = NoResponse
  /\ Len(sessions) < MaxSessions
  /\ \E task_id \in task_ids, task_data \in requests :
       LET request == [task_id |-> task_id, task_data |-> task_data] IN
       IF ~TaskUpdate_valid(task_data)
       THEN Requests(NoCall, 0, ValidationError("update", request), tasks, next_id)
       ELSE IF ~task_exists(task_id)
       THEN Requests(NoCall, 0, NotFound("update", request), tasks, next_id)
       ELSE /\ sessions' = Append(sessions,
                                  get_db(request, update_load(get_task(task_id), task_data)))
            /\ UNCHANGED <<api_key, client, remote_calls, last, tasks, next_id, response>>

\* the rest of the handler of one of the suspended requests: the embedding
\* arrives, the session commits and the row is returned
update_task_finish(embedding_responses) ==
  /\ last = NoCall /\ response = NoResponse
  /\ \E k \in 1..Len(sessions) :
       LET session == sessions[k]
           sends == session.embeds /\ _is_available
       IN \E resp \in Remote(sends, embedding_responses) :
            LET call == embedding_call(session, resp)
                rows == update_commit(tasks, session, call.out.value)
                row == rows[CHOOSE i \in 1..Len(rows) : rows[i].id = session.task.id]
                sent == IF sends THEN 1 ELSE 0
            IN /\ remote_calls + sent <= MaxRequests
               /\ remote_calls' = remote_calls + sent
               /\ last' = call
               /\ sessions' = [j \in 1..(Len(sessions) - 1) |->
                                 IF j < k THEN sessions[j] ELSE sessions[j + 1]]
               /\ IF ~commit_ok(session)
                  THEN /\ response' = ServerError("update", session.request)
                       /\ tasks' = tasks
                  ELSE /\ response' = Ok("update", session.request, row)
                       /\ tasks' = rows
               /\ UNCHANGED <<api_key, client, next_id>>

\* the requests of the overlapping updates, all to the first task
OverlapUpdates ==
  {TaskUpdate(<<"b","a">>, Unset, UnsetEnum, UnsetEnum, Unset),
   TaskUpdate(Unset, <<"c","d">>, UnsetEnum, UnsetEnum, Unset),
   TaskUpdate(<<>>, Unset, UnsetEnum, UnsetEnum, Unset)}

overlap_create == create_task_with({TaskCreate(<<"a","b">>)}, {Raises})

overlap_begin == update_task_begin({1}, OverlapUpdates)

overlap_finish == update_task_finish(UpdateEmbeddingResponses)

NextOverlap ==
  \/ overlap_create
  \/ overlap_begin
  \/ overlap_finish
  \/ ReturnToCaller

SpecOverlap == Init /\ [][NextOverlap]_vars

----------------------------------------------------------------------------
(* Tasks created from text, updated and searched *)

\* the requests of the updates, to the first task: the title the task
\* has already, another title, and the status alone
LifecycleUpdates ==
  {TaskUpdate(<<"a","b">>, Unset, UnsetEnum, UnsetEnum, Unset),
   TaskUpdate(<<"b","a">>, Unset, UnsetEnum, UnsetEnum, Unset),
   TaskUpdate(Unset, Unset, TaskStatus_COMPLETED, UnsetEnum, Unset)}

lifecycle_update ==
  update_task_with({1}, LifecycleUpdates,
                   {Raises, EmbeddingAnswer(<<>>), EmbeddingAnswer(<<1, 2>>)})

lifecycle_search ==
  semantic_search_with({<<"a","b">>}, {Raises, EmbeddingAnswer(<<1, 2>>)})

NextLifecycle ==
  \/ create_from_text_without_embedding
  \/ lifecycle_update
  \/ lifecycle_search
  \/ ReturnToCaller

SpecLifecycle == Init /\ [][NextLifecycle]_vars

----------------------------------------------------------------------------
(* Listing stored tasks *)

\* column ILIKE '%search%': a substring whatever the case, never true of a
\* column that is NULL
ilike(column, search) == column # None /\ str_in(lower(search), lower(column))

\* the WHERE clauses of get_tasks: each filter that is truthy
where(task, status, priority, search) ==
  /\ status # NoneEnum => task.status = status
  /\ priority # NoneEnum => task.priority = priority
  /\ (search # None /\ search # <<>>) =>
       ilike(task.title, search) \/ ilike(task.description, search)

\* ORDER BY id, ascending (ids are unique)
order_by_id(rows) ==
  [k \in 1..Len(rows) |->
     rows[CHOOSE i \in 1..Len(rows) :
            Cardinality({j \in 1..Len(rows) : rows[j].id < rows[i].id}) = k - 1]]

reversed(rows) == [k \in 1..Len(rows) |-> rows[Len(rows) + 1 - k]]

\* OFFSET skip LIMIT limit
offset_limit(rows, skip, limit) == SubSeq(rows, skip + 1, Min(skip + limit, Len(rows)))

\* any(tag in (t.tags or []) for tag in tags)
any_tag(task, tags) ==
  \E k \in 1..Len(tags) : \E j \in 1..Len(task.tags) : task.tags[j] = tags[k]

\* TaskService.get_tasks, sorted by id: the rows of the page, of which the
\* ones with none of the tags are dropped, and the count of the rows the
\* WHERE clauses select
get_tasks(rows, skip, limit, status, priority, tags, search, sort_order) ==
  LET selected == SelectSeq(rows, LAMBDA task : where(task, status, priority, search))
      total == Len(selected)
      sorted == IF lower(sort_order) = <<"d","e","s","c">> THEN reversed(order_by_id(selected))
                ELSE order_by_id(selected)
      page == offset_limit(sorted, skip, limit)
  IN [tasks |-> IF tags # None /\ tags # <<>>
                THEN SelectSeq(page, LAMBDA task : any_tag(task, tags))
                ELSE page,
      total |-> total]

\* tags.split(",")
RECURSIVE split_comma(_)
split_comma(text) ==
  LET commas == {i \in 1..Len(text) : text[i] = ","}
  IN IF commas = {} THEN <<text>>
     ELSE LET c == CHOOSE i \in commas : \A j \in commas : i <= j
          IN <<SubSeq(text, 1, c - 1)>> \o split_comma(SubSeq(text, c + 1, Len(text)))

\* math.ceil(total / page_size) if total > 0 else 1
total_pages(total, page_size) ==
  IF total > 0 THEN (total + page_size - 1) \div page_size ELSE 1

\* page: ge=1; page_size: ge=1, le=100
PageSizeMax == 100
list_query_valid(request) ==
  request.page >= 1 /\ request.page_size >= 1 /\ request.page_size <= PageSizeMax

\* GET /tasks/, sorted by id, for the requests given
list_tasks(requests) ==
  /\ last = NoCall /\ response = NoResponse
  /\ \E request \in requests :
       IF ~list_query_valid(request)
       THEN Requests(NoCall, 0, ValidationError("list", request), tasks, next_id)
       ELSE LET skip == (request.page - 1) * request.page_size
                tags_list == IF request.tags # None /\ request.tags # <<>>
                             THEN split_comma(request.tags) ELSE None
                found == get_tasks(tasks, skip, request.page_size, request.status,
                                   request.priority, tags_list, request.search,
                                   request.sort_order)
            IN Requests(NoCall, 0,
                        Ok("list", request,
                           [tasks |-> found.tasks, total |-> found.total,
                            page |-> request.page, page_size |-> request.page_size,
                            total_pages |-> total_pages(found.total, request.page_size)]),
                        tasks, next_id)

\* the tasks the lists are taken of, and the requests of the lists
ListedTasks ==
  {[TaskCreate(<<"a","b">>) EXCEPT !.tags = <<<<"x">>>>],
   [TaskCreate(<<"B","a">>) EXCEPT !.tags = <<<<"y">>, <<"x">>>>, !.priority = TaskPriority_HIGH],
   [TaskCreate(<<"a","b">>) EXCEPT !.status = TaskStatus_COMPLETED, !.description = <<"b","a","r">>]}

MaxPage == 2

ListQueries ==
  [page : 0..MaxPage, page_size : 1..MaxPage,
   status : {NoneEnum, TaskStatus_PENDING},
   priority : {NoneEnum, TaskPriority_HIGH},
   tags : {None, <<"x">>, <<"z",",","y">>},
   search : {None, <<"B","A">>},
   sort_order : {<<"a","s","c">>, <<"d","e","s","c">>}]

list_create == create_task_with(ListedTasks, {Raises})

list_tasks_route == list_tasks(ListQueries)

NextList ==
  \/ list_create
  \/ list_tasks_route
  \/ ReturnToCaller

SpecList == Init /\ [][NextList]_vars

----------------------------------------------------------------------------
(* Properties *)

\* what the local fallback of the operation of call c returns on c's arguments
FallbackOf(c) ==
  CASE c.op = "parse" -> _fallback_parse(c.args.text)
    [] c.op = "suggest_tags" -> _fallback_suggest_tags(c.args.title, c.args.description)
    [] c.op = "suggest_priority" ->
         _fallback_suggest_priority(c.args.title, c.args.description)
    [] c.op = "breakdown" -> _fallback_breakdown(c.args.title)
    [] c.op = "categorize" -> _fallback_categorize(c.args.title, c.args.description)
    [] c.op = "summarize" -> _fallback_summarize(c.args.tasks)
    [] c.op = "get_embedding" -> _fallback_embedding(c.args.text)

\* the remote answer holds one JSON object, perhaps inside prose, and no
\* other brace
JsonAnswer(resp) ==
  /\ resp.kind = "chat"
  /\ Cardinality({i \in 1..Len(resp.content) : resp.content[i].kind = "obj"}) = 1
  /\ \A i \in 1..Len(resp.content) : resp.content[i].kind # "braces"

\* that object
AnswerData(resp) ==
  resp.content[CHOOSE i \in 1..Len(resp.content) : resp.content[i].kind = "obj"].data

\* the value strings of a priority
PriorityStrings == {<<"l","o","w">>, <<"m","e","d","i","u","m">>, <<"h","i","g","h">>}

AssistanceOps ==
  {"parse", "suggest_tags", "suggest_priority", "breakdown", "categorize", "summarize"}

\* C1: when the request to the remote model raises, each of parse,
\* suggest_tags, suggest_priority, breakdown, categorize and summarize returns
\* exactly what its local fallback returns on the same input, and no
\* exception reaches the caller.
C1_RemoteFailureFallsBack ==
  (last.op \in AssistanceOps /\ last.resp = Raises) =>
    /\ ~last.out.raised
    /\ last.out.value = FallbackOf(last)

C1_Witness ==
  /\ last.op = "categorize"
  /\ last.resp = Raises
  /\ ~last.out.raised
  /\ last.out.value.category = JStr(<<"w","o","r","k">>)

\* the priority field of the remote object is present and is no value string
\* of a priority
PriorityFieldInvalid(resp) ==
  /\ JsonAnswer(resp)
  /\ "priority" \in DOMAIN AnswerData(resp)
  /\ ~(AnswerData(resp).priority.t = "str"
       /\ AnswerData(resp).priority.s \in PriorityStrings)

\* some field of the remote object of a parse fails validation: the
\* priority is no value string, the title is no string, the tags are no
\* list, or the confidence is no number in [0, 1]
ParseFieldInvalid(resp) ==
  /\ JsonAnswer(resp)
  /\ LET data == AnswerData(resp) IN
       \/ PriorityFieldInvalid(resp)
       \/ "title" \in DOMAIN data /\ data.title.t # "str"
       \/ "tags" \in DOMAIN data /\ data.tags.t # "list"
       \/ "confidence" \in DOMAIN data
            /\ ~(data.confidence.t = "num" /\ data.confidence.n \in 0..10)

C3_NoKeyNoRemote ==
  api_key = <<>> =>
    /\ remote_calls = 0
    /\ last.resp = NoRequest
    /\ last # NoCall =>
         /\ ~last.out.raised
         /\ last.out.value = FallbackOf(last)

C3_Witness ==
  /\ api_key = <<>>
  /\ last.op = "get_embedding"
  /\ last.out.value.unit
  /\ remote_calls = 0

\* C4: a parse or create-from-text request with an empty text gets a
\* validation error (422), which is no draft and no task; the assistance
\* engine is not called and the task store is unchanged.
C4_EmptyTextRejected ==
  [][(/\ response'.route \in {"parse", "create_from_text"}
      /\ response'.request.text = <<>>)
     => /\ response'.status = 422
        /\ response'.body = <<>>
        /\ last' = NoCall
        /\ tasks' = tasks
        /\ next_id' = next_id
        /\ remote_calls' = remote_calls]_vars

C4_Witness ==
  /\ response.route = "create_from_text"
  /\ response.request.text = <<>>
  /\ response.status = 422
  /\ Len(tasks) = 1

\* the priority the claim gives a lower-cased text
UrgencyKeywords ==
  <<<<"u","r","g","e","n","t">>, <<"a","s","a","p">>, <<"i","m","p","o","r","t","a","n","t">>, <<"c","r","i","t","i","c","a","l">>, <<"b","l","o","c","k","e","r">>,
    <<"U7D27","U6025">>, <<"U91CD","U8981">>, <<"U7ACB","U5373">>>>
DeferrableKeywords ==
  <<<<"s","o","m","e","d","a","y">>, <<"m","a","y","b","e">>, <<"w","h","e","n"," ","p","o","s","s","i","b","l","e">>, <<"n","i","c","e"," ","t","o"," ","h","a","v","e">>, <<"U4F4E","U4F18","U5148">>, <<"U7A7A","U95F2">>>>
ClaimedPriority(text_lower) ==
  IF any_in(UrgencyKeywords, text_lower) THEN TaskPriority_HIGH
  ELSE IF any_in(DeferrableKeywords, text_lower) THEN TaskPriority_LOW
  ELSE TaskPriority_MEDIUM

\* C5: in fallback mode the priority of a text, by suggest_priority on
\* title + " " + description and by the parse fallback on the raw text, is
\* high if the lower-cased text contains an urgency keyword (urgent, asap,
\* important, critical, blocker or a Chinese equivalent), otherwise low if it
\* contains a deferrable keyword (someday, maybe, when possible, nice to have
\* or a Chinese equivalent), otherwise medium.
C5_FallbackPriority ==
  api_key = <<>> =>
    /\ last.op = "suggest_priority" =>
         last.out.value.priority =
           ClaimedPriority(lower(title_and_description(last.args.title,
                                                       last.args.description)))
    /\ last.op = "parse" =>
         last.out.value.priority = ClaimedPriority(lower(last.args.text))

\* C6: the confidence of every draft parse returns is in [0, 1]; it is 0.5
\* when the draft is the fallback's (no key, no JSON object in the answer, or
\* an invalid field), 0.8 when the remote object is valid and gives no
\* confidence, and a remote confidence that is no number in [0, 1] never
\* reaches the caller.
C6_Confidence ==
  last.op = "parse" =>
    LET confidence == last.out.value.confidence IN
    /\ ~last.out.raised
    /\ confidence \in 0..10
    /\ (api_key = <<>> \/ ~JsonAnswer(last.resp) \/ ParseFieldInvalid(last.resp)) =>
         confidence = 5
    /\ (api_key # <<>> /\ JsonAnswer(last.resp) /\ ~ParseFieldInvalid(last.resp)) =>
         LET data == AnswerData(last.resp) IN
         confidence = IF "confidence" \in DOMAIN data THEN data.confidence.n ELSE 8

C6_Witness ==
  /\ last.op = "parse"
  /\ JsonAnswer(last.resp)
  /\ "confidence" \notin DOMAIN AnswerData(last.resp)
  /\ last.out.value.confidence = 8

\* C7: for every non-empty text, with and without the remote model, the
\* draft parse returns has a non-empty title, of at most 100 characters when
\* it is taken from the text, and at most 5 tags.
C7_DraftShape ==
  (last.op = "parse" /\ last.args.text # <<>>) =>
    LET draft == last.out.value IN
    /\ Len(draft.title) >= 1
    /\ Len(draft.tags) <= 5
    /\ draft.title = slice(last.args.text, Len(draft.title)) => Len(draft.title) <= 100

CategoryNames ==
  <<<<"w","o","r","k">>, <<"p","e","r","s","o","n","a","l">>, <<"h","e","a","l","t","h">>, <<"f","i","n","a","n","c","e">>, <<"l","e","a","r","n","i","n","g">>, <<"s","o","c","i","a","l">>,
    <<"h","o","m","e">>, <<"c","r","e","a","t","i","v","e">>, <<"u","r","g","e","n","t">>, <<"s","h","o","p","p","i","n","g">>>>

\* C8: every result of categorize_task, from the remote model or from the
\* fallback, has one of the ten categories or "other" as its category and at
\* most 2 subcategories.
C8_CategoryShape ==
  last.op = "categorize" =>
    /\ last.out.value.category \in
         {JStr(CategoryNames[i]) : i \in 1..Len(CategoryNames)} \cup {JStr(<<"o","t","h","e","r">>)}
    /\ last.out.value.subcategories.t = "list"
    /\ Len(last.out.value.subcategories.l) <= 2

\* the indices, in increasing order, of the groups of `table` that have a
\* keyword in `text`
RECURSIVE ascending(_)
ascending(S) ==
  IF S = {} THEN <<>>
  ELSE LET m == CHOOSE i \in S : \A j \in S : i <= j
       IN <<m>> \o ascending(S \ {m})
HitGroups(table, text) ==
  ascending({i \in 1..Len(table) :
               \E k \in 1..Len(table[i].keywords) : str_in(table[i].keywords[k], text)})

\* the call returned what its fallback computes: no key, or the request raised
FellBack(c) == api_key = <<>> \/ c.resp = Raises

TagGroupNames ==
  <<<<"d","e","v","e","l","o","p","m","e","n","t">>, <<"m","e","e","t","i","n","g">>, <<"d","o","c","u","m","e","n","t","a","t","i","o","n">>, <<"d","e","s","i","g","n">>, <<"t","e","s","t","i","n","g">>, <<"r","e","s","e","a","r","c","h">>>>

\* C10: the fallback tag suggester returns the name of every group
\* (development, meeting, documentation, design, testing, research) with a
\* keyword in title + " " + description, in that order, cut to the first 5;
\* and suggest_tags never returns more than 5 tags, with or without the
\* remote model.
C10_SuggestTags ==
  /\ [i \in 1..Len(categories) |-> categories[i].name] = TagGroupNames
  /\ last.op = "suggest_tags" =>
       /\ ~last.out.raised
       /\ py_len(last.out.value.tags) <= 5
       /\ FellBack(last) =>
            LET text == lower(title_and_description(last.args.title,
                                                    last.args.description))
                hits == HitGroups(categories, text)
                tags == last.out.value.tags
            IN /\ tags.t = "list"
               /\ Len(tags.l) = Min(5, Len(hits))
               /\ \A k \in 1..Len(tags.l) : tags.l[k] = TagGroupNames[hits[k]]

\* all six groups match and the sixth is cut
C10_Witness ==
  /\ last.op = "suggest_tags"
  /\ api_key = <<>>
  /\ Len(HitGroups(categories, lower(title_and_description(last.args.title,
                                                            last.args.description)))) = 6
  /\ last.out.value.tags =
       JList(<<<<"d","e","v","e","l","o","p","m","e","n","t">>, <<"m","e","e","t","i","n","g">>, <<"d","o","c","u","m","e","n","t","a","t","i","o","n">>, <<"d","e","s","i","g","n">>, <<"t","e","s","t","i","n","g">>>>)

\* C11: every result of breakdown_task, from the remote model or from the
\* fallback, is a non-empty sequence of subtasks whose order values are
\* 1, 2, ..., N in list position; the fallback gives exactly the three
\* subtasks Plan, Execute, Review, and a remote subtask that has no order
\* gets its 1-based position.
C11_BreakdownShape ==
  last.op = "breakdown" =>
    LET subtasks == last.out.value.subtasks IN
    /\ ~last.out.raised
    /\ Len(subtasks) >= 1
    /\ \A i \in 1..Len(subtasks) : subtasks[i].order = i
    /\ FellBack(last) =>
         /\ Len(subtasks) = 3
         /\ subtasks[1].title = <<"P","l","a","n",":"," ">> \o last.args.title
         /\ subtasks[2].title = <<"E","x","e","c","u","t","e",":"," ">> \o last.args.title
         /\ subtasks[3].title = <<"R","e","v","i","e","w",":"," ">> \o last.args.title

\* the operations that rank candidates against a query, the candidates of
\* the last call and the limit it was given
RankingOps == {"find_similar_tasks", "semantic_search"}
RankingCandidates ==
  IF last.op = "find_similar_tasks" THEN last.args.all_tasks ELSE tasks
\* the remote model answered the query with an empty embedding
QueryEmbeddingEmpty == last.resp.kind = "embedding" /\ last.resp.embedding = <<>>

\* C12: every score returned by semantic search or by similar-task detection
\* is in [0, 1], whatever the stored embeddings and the query embedding are,
\* and the search response is never rejected by the score bound of its schema.
C12_ScoreBounds ==
  /\ last.op \in RankingOps =>
       \A i \in 1..Len(last.out.value) :
          LET score == last.out.value[i].score
          IN score.den > 0 /\ score.sign >= 0 /\ score.num <= score.den
  /\ response.route = "semantic_search" => response.status # 500

\* C13: find_similar_tasks returns the candidates in non-increasing order of
\* score, and two candidates of equal score in the order they have in the
\* input collection.
C13_RankingOrder ==
  last.op \in RankingOps =>
    LET result == last.out.value IN
    \A i \in 1..Len(result) : \A j \in (i + 1)..Len(result) :
       /\ ~score_lt(result[i].score, result[j].score)
       /\ result[i].score = result[j].score => result[i].task.id < result[j].task.id

\* two candidates of one score are returned in input order, ahead of a
\* candidate of a lower score that came first
C13_Witness ==
  /\ last.op = "find_similar_tasks"
  /\ Len(last.args.all_tasks) = 3
  /\ truthy(last.args.all_tasks[1].embedding)
  /\ Len(last.out.value) = 2
  /\ last.out.value[1].score = last.out.value[2].score
  /\ last.out.value[1].task.id = 2
  /\ last.out.value[2].task.id = 3

\* the candidates that have an embedding to compare
WithEmbedding(candidates) ==
  {i \in 1..Len(candidates) :
     ~candidates[i].embedding.none /\ Len(candidates[i].embedding.v) > 0}

C15_Truncation ==
  last.op = "compute_similarity" =>
    LET embedding1 == last.args.embedding1
        embedding2 == last.args.embedding2
        common == Min(Len(embedding1), Len(embedding2))
    IN /\ ~last.out.raised
       /\ last.out.value.den > 0
       /\ last.out.value =
            compute_similarity(SubSeq(embedding1, 1, common), SubSeq(embedding2, 1, common))

\* the entries cut off are not zero
C15_Witness ==
  /\ last.op = "compute_similarity"
  /\ last.args.embedding1 = <<1, 2, 2>>
  /\ last.args.embedding2 = <<1, 2>>
  /\ last.out.value = [sign |-> 1, num |-> 1, den |-> 1]

\* C16: compute_similarity returns 0.0, and divides by no zero, whenever a
\* vector is empty or has norm zero once both are cut to the common length.
C16_ZeroNorm ==
  last.op = "compute_similarity" =>
    LET embedding1 == last.args.embedding1
        embedding2 == last.args.embedding2
        common == Min(Len(embedding1), Len(embedding2))
        zero(v) == \A i \in 1..common : v[i] = 0
    IN /\ last.out.value.den > 0
       /\ (embedding1 = <<>> \/ embedding2 = <<>> \/ zero(embedding1) \/ zero(embedding2)) =>
            last.out.value = [sign |-> 0, num |-> 0, den |-> 1]

\* a vector that is zero only once it is cut
C16_Witness ==
  /\ last.op = "compute_similarity"
  /\ last.args.embedding1 = <<0, 0, 5>>
  /\ last.args.embedding2 = <<1, 2>>
  /\ last.out.value = [sign |-> 0, num |-> 0, den |-> 1]

\* C17: get_embedding never fails; when the remote request fails, or no key
\* is configured, the result is the local embedding, which is a function of
\* the text alone (so the same on every call with that text), has exactly 256
\* entries, and is the all-zero vector exactly when the text has no word
\* (it is empty or all blanks); otherwise it is scaled to norm 1.
C17_LocalEmbedding ==
  last.op = "get_embedding" =>
    /\ ~last.out.raised
    /\ ~last.out.value.none
    /\ FellBack(last) =>
         LET text == last.args.text
             embedding == last.out.value
             no_word == \A i \in 1..Len(text) : text[i] = " "
         IN /\ embedding = _fallback_embedding(text)
            /\ Len(embedding.v) = 256
            /\ \A k \in 1..256 : embedding.v[k] >= 0
            /\ (\A k \in 1..256 : embedding.v[k] = 0) <=> no_word
            /\ embedding.unit <=> ~no_word

\* the request for the embedding of a blank text fails
C17_Witness ==
  /\ last.op = "get_embedding"
  /\ api_key # <<>>
  /\ last.resp = Raises
  /\ last.args.text = <<" ">>
  /\ Len(last.out.value.v) = 256
  /\ \A k \in 1..256 : last.out.value.v[k] = 0

\* the number of tasks of a collection whose field, or the default when the
\* task has none, is the value
Counted(task_dicts, field, default, value) ==
  Cardinality({i \in 1..Len(task_dicts) : get(task_dicts[i], field, default) = value})

StartsWith(s, prefix) == Len(s) >= Len(prefix) /\ SubSeq(s, 1, Len(prefix)) = prefix

\* C18: generate_task_insights returns, for every collection, a report that
\* carries total, by_status, by_priority, by_tag, completion_rate, insights
\* and recommendations; for the empty collection total is 0, the three
\* distributions are empty and both lists are empty.
C18_Report ==
  last.op = "generate_task_insights" =>
    LET report == last.out.value
    IN /\ ~last.out.raised
       /\ {"total", "by_status", "by_priority", "by_tag", "completion_rate",
           "insights", "recommendations"} \subseteq DOMAIN report
       /\ last.args.tasks = <<>> =>
            /\ report.total = 0
            /\ report.by_status = <<>>
            /\ report.by_priority = <<>>
            /\ report.by_tag = <<>>
            /\ report.insights = <<>>
            /\ report.recommendations = <<>>

\* C19: for every collection the report's completion_rate times total is
\* 100 times the number of tasks with status completed, and the rate is 0
\* when total is 0.
C19_CompletionRate ==
  last.op = "generate_task_insights" =>
    LET report == last.out.value
        total == Len(last.args.tasks)
        completed == Counted(last.args.tasks, "status", <<"p","e","n","d","i","n","g">>, <<"c","o","m","p","l","e","t","e","d">>)
    IN /\ "completion_rate" \in DOMAIN report
       /\ report.completion_rate.num * total = 100 * completed * report.completion_rate.den
       /\ total = 0 => report.completion_rate.num = 0

\* C20: for a non-empty collection the insights are, in this order: the
\* pending-majority insight iff more than half of the tasks are pending, the
\* high-priority insight with the exact count iff more than 3 tasks are of
\* high priority, one completion-rate insight with one decimal place, the
\* top-tags insight iff some task has a tag; the recommendations are one for
\* each of the first two rules that fired, in that order, and no other.
C20_InsightRules ==
  last.op = "generate_task_insights" /\ last.args.tasks # <<>> =>
    LET task_dicts == last.args.tasks
        report == last.out.value
        insights == report.insights
        pending == Counted(task_dicts, "status", <<"p","e","n","d","i","n","g">>, <<"p","e","n","d","i","n","g">>)
        high == Counted(task_dicts, "priority", <<"m","e","d","i","u","m">>, <<"h","i","g","h">>)
        first == 2 * pending > Len(task_dicts)
        second == high > 3
        tagged == \E i \in 1..Len(task_dicts) : get(task_dicts[i], "tags", <<>>) # <<>>
        n1 == IF first THEN 1 ELSE 0
        n2 == IF second THEN 1 ELSE 0
        n4 == IF tagged THEN 1 ELSE 0
        rate == insights[n1 + n2 + 1]
    IN /\ Len(insights) = n1 + n2 + 1 + n4
       /\ first => insights[1] = PendingInsight
       /\ second => insights[n1 + 1] = HighPriorityInsight(high)
       /\ StartsWith(rate, CompletionRatePrefix)
       /\ rate[Len(rate)] = "%" /\ rate[Len(rate) - 2] = "."
       /\ tagged => StartsWith(insights[n1 + n2 + 2], TopTagsPrefix)
       /\ report.recommendations =
            (IF first THEN <<PendingRecommendation>> ELSE <<>>)
            \o (IF second THEN <<HighPriorityRecommendation>> ELSE <<>>)

\* four pending tasks of high priority with tags: every rule fires
C20_Witness ==
  /\ last.op = "generate_task_insights"
  /\ Len(last.args.tasks) = 4
  /\ Len(last.out.value.insights) = 4
  /\ last.out.value.insights[2] = HighPriorityInsight(4)
  /\ Len(last.out.value.recommendations) = 2

\* the places (task, position in its tags) where a collection names a tag
AllTagPlaces(task_dicts) ==
  UNION {{<<i, j>> : j \in 1..Len(get(task_dicts[i], "tags", <<>>))} : i \in 1..Len(task_dicts)}

TagAt(task_dicts, p) == get(task_dicts[p[1]], "tags", <<>>)[p[2]]

\* the places where a collection names the tag
TagPlaces(task_dicts, tag) ==
  {p \in AllTagPlaces(task_dicts) : TagAt(task_dicts, p) = tag}

Earlier(p, q) == p[1] < q[1] \/ (p[1] = q[1] /\ p[2] < q[2])

\* tag a is named before tag b: it occurs more often, or as often and its
\* first place lies before every place of b
RankedBefore(task_dicts, a, b) ==
  LET places_a == TagPlaces(task_dicts, a)
      places_b == TagPlaces(task_dicts, b)
  IN \/ Cardinality(places_a) > Cardinality(places_b)
     \/ /\ Cardinality(places_a) = Cardinality(places_b)
        /\ \E p \in places_a : \A q \in places_b : Earlier(p, q)

\* C21: the top-tags insight names the (at most) 3 tags that occur most
\* often, in descending count order; of tags that occur equally often the one
\* met first in input order comes first; a task with several tags counts
\* once for each of them.
C21_TopTags ==
  last.op = "generate_task_insights" =>
    LET task_dicts == last.args.tasks
        used == {TagAt(task_dicts, p) : p \in AllTagPlaces(task_dicts)}
        rank(tag) == Cardinality({other \in used : RankedBefore(task_dicts, other, tag)})
        expected == [k \in 1..Min(3, Cardinality(used)) |->
                       CHOOSE tag \in used : rank(tag) = k - 1]
        insights == last.out.value.insights
    IN used # {} =>
         /\ \A tag \in used :
              count_of(last.out.value.by_tag, tag) = Cardinality(TagPlaces(task_dicts, tag))
         /\ insights[Len(insights)] = TopTagsPrefix \o join(expected)

\* four tags, three of them met once and the one met last met twice
C21_Witness ==
  /\ last.op = "generate_task_insights"
  /\ Len(last.args.tasks) = 3
  /\ last.out.value.insights[Len(last.out.value.insights)] = TopTagsPrefix \o <<"a",","," ","c",","," ","d">>
  /\ count_of(last.out.value.by_tag, <<"b">>) = 1
  /\ count_of(last.out.value.by_tag, <<"a">>) = 2

\* the segment of a completion where its first brace opens (0: it has none)
FirstBraced(content) ==
  LET braced == {i \in 1..Len(content) : content[i].kind # "prose"}
  IN IF braced = {} THEN 0 ELSE CHOOSE i \in braced : \A j \in braced : i <= j

\* what the operation of call c returns on c's arguments when the remote
\* model answers resp
AnsweredWith(c, resp) ==
  CASE c.op = "parse" -> parse_natural_language_task(c.args.text, resp)
    [] c.op = "suggest_tags" -> suggest_tags(c.args.title, c.args.description, resp)

\* C22: when the first brace-delimited text of a completion is a JSON object,
\* whatever prose precedes it and whatever text follows it (a text with
\* braces or a second object included), parse and suggest_tags return what
\* they return for that object alone, and not the fallback.
C22_FirstObject ==
  (/\ last.op \in {"parse", "suggest_tags"}
   /\ last.resp.kind = "chat"
   /\ FirstBraced(last.resp.content) # 0
   /\ last.resp.content[FirstBraced(last.resp.content)].kind = "obj") =>
    last.out = AnsweredWith(last, Answer(<<last.resp.content[FirstBraced(last.resp.content)]>>))

\* C24: a create-from-text request with a non-empty text, with or without the
\* remote model, succeeds and adds exactly one task to the store: its status
\* is pending, its title, description, priority and tags are those of the
\* parsed draft, and its ai_suggested_tags and ai_suggested_priority are the
\* draft's tags and priority.
C24_CreateFromText ==
  [][(/\ response'.route = "create_from_text"
      /\ response'.request.text # <<>>)
     => LET draft == last'.out.value
            task == tasks'[Len(tasks')]
        IN /\ response'.status = 200
           /\ Len(tasks') = Len(tasks) + 1
           /\ SubSeq(tasks', 1, Len(tasks)) = tasks
           /\ response'.body = task
           /\ task.status = TaskStatus_PENDING
           /\ task.title = draft.title
           /\ task.description = draft.description
           /\ task.priority = draft.priority
           /\ task.tags = draft.tags
           /\ task.ai_suggested_tags = draft.tags
           /\ task.ai_suggested_priority = priority_value(draft.priority)]_vars


\* the routes that address one stored task by its id
TaskRoutes ==
  {"get", "update", "delete", "suggest_tags", "suggest_priority", "breakdown"}

\* no stored task has the id
Missing(task_id) == \A i \in 1..Len(tasks) : tasks[i].id # task_id

\* a step that answers a request addressed to an id no stored task has
AnswersMissing ==
  /\ response = NoResponse
  /\ response' # NoResponse
  /\ response'.route \in TaskRoutes
  /\ Missing(response'.request.task_id)

\* a step that reports not-found, calls no operation of the service, sends
\* nothing to the remote model and leaves the store as it was
ReportsNotFound ==
  /\ response'.status = 404
  /\ last' = NoCall
  /\ remote_calls' = remote_calls
  /\ tasks' = tasks
  /\ next_id' = next_id

\* the statement of C25 as written: every request to a missing id, whatever
\* its body, is answered with not-found
C25_AnyRequest == [][AnswersMissing => ReportsNotFound]_vars

\* C25: get, update, delete, suggest-tags, suggest-priority and breakdown on
\* an id no stored task has report not-found (404) without any call of the
\* service's engine and with the store unchanged, provided the request body
\* of an update passes validation (an invalid body is refused with 422
\* before the task is looked up, the store unchanged as well).
C25_MissingTask ==
  [][(/\ AnswersMissing
      /\ response'.route = "update" => TaskUpdate_valid(response'.request.task_data))
     => ReportsNotFound]_vars

\* C25: with the API key set and a task stored, suggest-tags on a missing id
\* has answered 404
C25_Witness ==
  /\ response.route = "suggest_tags"
  /\ response.status = 404
  /\ _is_available
  /\ tasks # <<>>
  /\ Missing(response.request.task_id)

\* what the user enters for a task
UserFields == {"title", "description", "status", "priority", "tags"}

\* the values of TaskPriority
SuggestedPriorities == {priority_value(m) : m \in TaskPriorityMembers}

\* the store after the step is the store before it, but for the columns
\* given of the row with the id
WritesOnly(task_id, columns) ==
  /\ Len(tasks') = Len(tasks)
  /\ \A i \in 1..Len(tasks) :
       \A field \in DOMAIN tasks[i] :
         tasks'[i][field] # tasks[i][field] =>
           tasks[i].id = task_id /\ field \in columns

\* C30: assistance leaves what the user entered alone. A create with
\* auto-suggest stores title, description, status, priority and tags as
\* entered (the suggestions and the embedding go to their own columns) and
\* changes no other task; suggest-tags changes nothing but ai_suggested_tags
\* of its task, suggest-priority nothing but ai_suggested_priority of its
\* task, breakdown nothing at all; every stored ai_suggested_priority is
\* low, medium or high.
C30_UserFieldsKept ==
  [][/\ (response'.route = "create" /\ response'.status = 201) =>
          /\ Len(tasks') = Len(tasks) + 1
          /\ SubSeq(tasks', 1, Len(tasks)) = tasks
          /\ \A field \in UserFields :
               tasks'[Len(tasks')][field] = response'.request[field]
     /\ response'.route = "suggest_tags" =>
          WritesOnly(response'.request.task_id, {"ai_suggested_tags"})
     /\ response'.route = "suggest_priority" =>
          WritesOnly(response'.request.task_id, {"ai_suggested_priority"})
     /\ response'.route = "breakdown" => tasks' = tasks
     /\ \A i \in 1..Len(tasks') : tasks'[i].ai_suggested_priority \in SuggestedPriorities
    ]_vars

\* C30: suggest-tags has stored, for a task with tags of the user's, tags
\* that differ from them, and the suggested priority of the task differs
\* from the priority the user gave it
C30_Witness ==
  /\ response.route = "suggest_tags"
  /\ response.status = 200
  /\ LET task == get_task(response.request.task_id)
     IN /\ task.tags # <<>>
        /\ task.ai_suggested_tags = response.body.suggested_tags.l
        /\ task.ai_suggested_tags # task.tags
        /\ task.ai_suggested_priority # priority_value(task.priority)

\* the fields a request of an update supplies
Supplied(task_data) == {field \in UserFields : task_data[field] # unset_of(field)}

\* the columns an update has no business with
SuggestionColumns == {"ai_suggested_tags", "ai_suggested_priority"}

\* a step that answers a valid update request on a stored task
AnswersUpdate ==
  /\ response = NoResponse
  /\ response'.route = "update"
  /\ TaskUpdate_valid(response'.request.task_data)
  /\ ~Missing(response'.request.task_id)

\* C26: an update of a stored task sets exactly the fields its request
\* supplies (among title, description, status, priority, tags) to the values
\* supplied, and leaves the other user fields of the task, its
\* ai_suggested_tags and ai_suggested_priority, and every other task as they
\* were.
C26_UpdateSetsSupplied ==
  [][AnswersUpdate =>
       LET request == response'.request IN
       /\ Len(tasks') = Len(tasks)
       /\ \A i \in 1..Len(tasks) :
            IF tasks[i].id = request.task_id
            THEN \A field \in UserFields \cup SuggestionColumns :
                   tasks'[i][field] =
                     IF field \in Supplied(request.task_data)
                     THEN request.task_data[field] ELSE tasks[i][field]
            ELSE tasks'[i] = tasks[i]]_vars

\* the local embedding of the title, a space and the description (nothing
\* when there is none) of a task
LocalEmbeddingOf(task) ==
  _fallback_embedding(title_and_description(task.title, task.description))

\* C27: without the remote model, after any sequence of creates with
\* auto-suggest and updates, one after the other, every stored task holds the
\* local embedding of its current title, a space and its current description
\* (empty when it has none); and, with or without the remote model, an
\* update that supplies neither title nor description leaves the embedding
\* of its task as it was.
C27_EmbeddingFollowsText ==
  [][/\ ~_is_available =>
          \A i \in 1..Len(tasks') : tasks'[i].embedding = LocalEmbeddingOf(tasks'[i])
     /\ (/\ AnswersUpdate
         /\ Supplied(response'.request.task_data) \cap {"title", "description"} = {}) =>
          \A i \in 1..Len(tasks) : tasks'[i].embedding = tasks[i].embedding
    ]_vars

\* C27: without the remote model, an update of the title has answered for a
\* task whose description an earlier update had set; the embedding stored is
\* that of the two, and not the one the task was created with
C27_Witness ==
  /\ ~_is_available
  /\ response.route = "update"
  /\ response.status = 200
  /\ response.request.task_data.title # Unset
  /\ LET task == get_task(response.request.task_id)
     IN /\ task.title = response.request.task_data.title
        /\ task.description # None
        /\ task.embedding = LocalEmbeddingOf(task)
        /\ task.embedding # LocalEmbeddingOf(TaskCreate(<<"a","b">>))

\* the task passes every filter the request of a list supplies
MatchesEvery(task, request) ==
  /\ request.status # NoneEnum => task.status = request.status
  /\ request.priority # NoneEnum => task.priority = request.priority
  /\ (request.search # None /\ request.search # <<>>) =>
       \/ str_in(lower(request.search), lower(task.title))
       \/ task.description # None /\ str_in(lower(request.search), lower(task.description))
  /\ (request.tags # None /\ request.tags # <<>>) =>
       \E k \in DOMAIN split_comma(request.tags) :
         \E j \in DOMAIN task.tags : task.tags[j] = split_comma(request.tags)[k]

\* the stored tasks that pass every filter, in the order asked for (the
\* store holds them by ascending id)
SortedMatching(request) ==
  LET matching == SelectSeq(tasks, LAMBDA task : MatchesEvery(task, request))
  IN IF request.sort_order = <<"d","e","s","c">> THEN reversed(matching) ELSE matching

\* C23: a list returns exactly the slice [(page-1)*page_size, page*page_size)
\* of the sorted sequence of the stored tasks that match every filter
\* supplied (status, priority, tags, search), and reports as total the
\* number of those tasks; so the page holds page_size tasks whenever that
\* many matching tasks remain.
C23_ListPage ==
  (response.route = "list" /\ response.status = 200) =>
    LET request == response.request
        matching == SortedMatching(request)
        first == (request.page - 1) * request.page_size
    IN /\ response.body.tasks =
            SubSeq(matching, first + 1, Min(first + request.page_size, Len(matching)))
       /\ response.body.total = Len(matching)
       /\ Len(matching) >= first + request.page_size =>
            Len(response.body.tasks) = request.page_size

\* C28: when the updates of a task have overlapped (one setting the title,
\* the other the description, each suspended at its embedding before it
\* committed) and all have committed, the embedding stored for the task is
\* the one computed from the title and the description the task now has;
\* without the remote model, it is their local embedding.
C28_OverlappingUpdates ==
  (/\ response.route = "update"
   /\ response.status = 200
   /\ last.op = "get_embedding"
   /\ sessions = <<>>) =>
    LET task == get_task(response.request.task_id)
    IN /\ task.embedding = last.out.value
       /\ last.args.text = title_and_description(task.title, task.description)
       /\ ~_is_available => task.embedding = LocalEmbeddingOf(task)

\* a step that answers an update which has committed on the i-th stored
\* task and which, as the claim is written, changes the title or the
\* description of the task, or else supplies one of the two
UpdateOfText(i, as_written) ==
  /\ response = NoResponse
  /\ response'.route = "update"
  /\ response'.status = 200
  /\ response'.request.task_id = tasks[i].id
  /\ IF as_written
     THEN tasks'[i].title # tasks[i].title \/ tasks'[i].description # tasks[i].description
     ELSE Supplied(response'.request.task_data) \cap {"title", "description"} # {}

\* a search returns stored tasks that have an embedding, and all of them
\* when the embedding of the query is not empty and the limit allows (an
\* embedding with no entry, which only the remote model can give, is as
\* good as none)
SearchFindsEmbedded ==
  last.op = "semantic_search" =>
    LET result == last.out.value
        embedded == WithEmbedding(tasks)
    IN /\ \A k \in 1..Len(result) : \E i \in embedded : result[k].task = tasks[i]
       /\ (~QueryEmbeddingEmpty /\ last.args.limit >= Cardinality(embedded)) =>
            \A i \in embedded : \E k \in 1..Len(result) : result[k].task = tasks[i]

\* the life of the embedding of a task created from text
EmbeddingLifecycle(as_written) ==
  /\ (response = NoResponse /\ response'.route = "create_from_text"
      /\ response'.status = 200) =>
       /\ Len(tasks') = Len(tasks) + 1
       /\ tasks'[Len(tasks')].embedding.none
  /\ \A i \in 1..Len(tasks) :
       /\ (tasks[i].embedding.none /\ ~tasks'[i].embedding.none) =>
            UpdateOfText(i, as_written)
       /\ UpdateOfText(i, as_written) => ~tasks'[i].embedding.none
       /\ ~tasks[i].embedding.none => ~tasks'[i].embedding.none
  /\ SearchFindsEmbedded'

====
